---------------------------- MODULE Spec2Model ----------------------------
(***************************************************************************)
(* package-policy: a model of lib/index.ts (main, getConfig, the lockfile  *)
(* extractor, checkPackage, processRepo and its approval record) and of    *)
(* lib/utils.ts, lib/package-downloads.ts, lib/node-cve.ts.                *)
(*                                                                         *)
(* JavaScript strings are TLA+ strings; `undefined` is the value Undefined.*)
(* Time is counted in days.                                                *)
(***************************************************************************)
EXTENDS Integers, Sequences, FiniteSets, TLC

(***************************************************************************)
(* JavaScript values and string operations                                 *)
(***************************************************************************)

\* The JavaScript value `undefined` (a missing field, a missing map key).
Undefined == "<undefined>"

\* JavaScript truthiness of a string-or-undefined value.
Truthy(x) == x # Undefined /\ x # ""

\* `${x}` in a template literal.
Template(x) == IF x = Undefined THEN "undefined" ELSE x

\* obj[key] / obj?.[key] on a Record<string, string>.
Lookup(map, key) == IF key \in DOMAIN map THEN map[key] ELSE Undefined

\* The empty JavaScript object {} as a map.
EmptyMap == [k \in {} |-> ""]

SetMax(S) == CHOOSE m \in S : \A k \in S : k <= m

\* String.prototype.lastIndexOf: 0-based index of the last occurrence, or -1.
LastIndexOf(s, sub) ==
    LET hits == { i \in 0..(Len(s) - Len(sub)) :
                     SubSeq(s, i + 1, i + Len(sub)) = sub }
    IN  IF hits = {} THEN -1 ELSE SetMax(hits)

\* String.prototype.substring(from, to), 0-based, `to` exclusive.
Substring(s, from, to) == SubSeq(s, from + 1, to)

\* The characters that occur in the modelled strings, in code-unit order.
Ascii == " *-./0123456789:<=>@ABCDEFGHIJKLMNOPQRSTUVWXYZ_abcdefghijklmnopqrstuvwxyz|"

CharCode(c) == CHOOSE i \in 1..Len(Ascii) : SubSeq(Ascii, i, i) = c

\* a < b on JavaScript strings: lexicographic by code unit.
RECURSIVE StrLess(_, _)
StrLess(a, b) ==
    IF b = "" THEN FALSE
    ELSE IF a = "" THEN TRUE
    ELSE LET ca == CharCode(SubSeq(a, 1, 1))
             cb == CharCode(SubSeq(b, 1, 1))
         IN  IF ca # cb THEN ca < cb
             ELSE StrLess(SubSeq(a, 2, Len(a)), SubSeq(b, 2, Len(b)))

\* node:path basename of a path without trailing slash.
Basename(path) == Substring(path, LastIndexOf(path, "/") + 1, Len(path))

Range(seq) == { seq[i] : i \in 1..Len(seq) }

(***************************************************************************)
(* lib/utils.ts                                                            *)
(***************************************************************************)

NodeModules == "node_modules/"

\* The name without the test for a scope.
PackageNameFromPathNoScope(path) ==
    LET i == LastIndexOf(path, NodeModules)
    IN  IF i > 0 THEN Substring(path, i + Len(NodeModules), Len(path))
        ELSE Basename(path)

\* packageNameFromPath: the name of a package from its installation path.
PackageNameFromPath(path) ==
    LET i  == LastIndexOf(path, NodeModules)
        i1 == LastIndexOf(path, "@")
    IN  IF i > 0 THEN Substring(path, i + Len(NodeModules), Len(path))
        ELSE IF i1 > 0 THEN Substring(path, i1, Len(path))
        ELSE Basename(path)

(***************************************************************************)
(* semver (library): satisfies(version, range, {includePrerelease: true})  *)
(* on the versions and ranges of the model.  An empty range is `*`; a      *)
(* version that is no semver string satisfies nothing.                     *)
(***************************************************************************)

Versions == {"1.0.0", "2.0.0"}

RangeVersions(range) ==
    CASE range = "*"              -> Versions
      [] range = ""               -> Versions
      [] range = "1.0.0"          -> {"1.0.0"}
      [] range = "2.0.0"          -> {"2.0.0"}
      [] range = "1.0.0 || 2.0.0" -> {"1.0.0", "2.0.0"}
      [] OTHER                    -> {}

Satisfies(version, range) == version \in RangeVersions(range)

(***************************************************************************)
(* Config, defaultConfig and getConfig                                     *)
(***************************************************************************)

\* parseDuration('2d'), in days.
DefaultMinPackageAge == 2

DefaultMinWeeklyDownloads == 100

defaultConfig ==
    [ minPackageAge      |-> DefaultMinPackageAge,
      minWeeklyDownloads |-> DefaultMinWeeklyDownloads,
      licenses           |-> <<>>,
      blacklist          |-> EmptyMap,
      ignore             |-> EmptyMap ]

\* Object.assign(config, yaml.parse(data)): every key of the file is copied,
\* a key of Config or not, and replaces the default of the same name.
ObjectAssign(target, source) ==
    [ k \in DOMAIN target \cup DOMAIN source |->
        IF k \in DOMAIN source THEN source[k] ELSE target[k] ]

\* The first policy file that exists is [exists, data], data the parsed YAML
\* mapping with its durations in days.
getConfig(file) ==
    IF file.exists THEN ObjectAssign(defaultConfig, file.data) ELSE defaultConfig

(***************************************************************************)
(* readInstalledPackagesFromLockfile                                       *)
(*                                                                         *)
(* A lockfile is [kind, packages]: kind is which lockfile exists in the    *)
(* directory, packages is json.packages in file order, a sequence of       *)
(* [path, name, version, link, license].                                   *)
(***************************************************************************)

NameOf(spec) == IF Truthy(spec.name) THEN spec.name ELSE PackageNameFromPath(spec.path)

NameWithVersion(spec) == NameOf(spec) \o "@" \o Template(spec.version)

DepKey(dep) == dep.name \o "@" \o Template(dep.version)

\* The duplicate test never finding the key.
HasDepNever(deps, key) == FALSE

\* deps[nameWithVersion] is set.
HasDep(deps, key) == \E i \in 1..Len(deps) : DepKey(deps[i]) = key

\* The blacklist test of one lockfile entry.
IsBlacklisted(config, spec) ==
    LET blacklistVersion == Lookup(config.blacklist, NameOf(spec))
    IN  Truthy(blacklistVersion) /\ Satisfies(spec.version, blacklistVersion)

\* The ignore test never matching.
IsIgnoredNever(config, spec) == FALSE

\* The ignore test of one lockfile entry.
IsIgnored(config, spec) ==
    LET ignoreVersion == Lookup(config.ignore, NameOf(spec))
    IN  Truthy(ignoreVersion) /\ Satisfies(spec.version, ignoreVersion)

\* The loop body with the ignore test before the blacklist test.
ExtractStepIgnoreFirst(config, st, spec) ==
    IF st.error # "" THEN st
    ELSE IF spec.path = "" THEN st
    ELSE IF spec.link = TRUE THEN st
    ELSE IF HasDep(st.deps, NameWithVersion(spec)) THEN st
    ELSE IF IsIgnored(config, spec) THEN st
    ELSE IF IsBlacklisted(config, spec)
         THEN [st EXCEPT !.error = "Blacklisted version " \o NameWithVersion(spec)]
    ELSE [st EXCEPT !.deps = Append(@, [ name    |-> NameOf(spec),
                                          path    |-> spec.path,
                                          version |-> spec.version,
                                          license |-> spec.license ])]

\* The body of the for loop on one entry: the state is [error, deps], deps
\* in insertion order (Object.values order: no key is an integer index).
ExtractStep(config, st, spec) ==
    IF st.error # "" THEN st
    ELSE IF spec.path = "" THEN st
    ELSE IF spec.link = TRUE THEN st
    ELSE IF HasDep(st.deps, NameWithVersion(spec)) THEN st
    ELSE IF IsBlacklisted(config, spec)
         THEN [st EXCEPT !.error = "Blacklisted version " \o NameWithVersion(spec)]
    ELSE IF IsIgnored(config, spec) THEN st
    ELSE [st EXCEPT !.deps = Append(@, [ name    |-> NameOf(spec),
                                          path    |-> spec.path,
                                          version |-> spec.version,
                                          license |-> spec.license ])]

RECURSIVE ExtractLoop(_, _, _)
ExtractLoop(config, st, packages) ==
    IF packages = <<>> THEN st
    ELSE ExtractLoop(config, ExtractStep(config, st, Head(packages)), Tail(packages))

\* An insertion that does not compare.
InsertDepFront(x, sorted) == <<x>> \o sorted

\* deps.sort((a, b) => a.name < b.name ? -1 : a.name > b.name ? 1 : 0): the
\* sort is stable, so this is an insertion after the elements not greater.
RECURSIVE InsertDep(_, _)
InsertDep(x, sorted) ==
    IF sorted = <<>> THEN <<x>>
    ELSE IF StrLess(x.name, Head(sorted).name)
         THEN <<x>> \o sorted
         ELSE <<Head(sorted)>> \o InsertDep(x, Tail(sorted))

RECURSIVE SortDeps(_)
SortDeps(seq) ==
    IF seq = <<>> THEN <<>>
    ELSE InsertDep(seq[Len(seq)], SortDeps(SubSeq(seq, 1, Len(seq) - 1)))

\* Any lockfile read as if it were package-lock.json.
readInstalledPackagesLenient(config, lock) ==
    LET st == ExtractLoop(config, [error |-> "", deps |-> <<>>], lock.packages)
    IN  IF st.error # "" THEN [error |-> st.error, deps |-> <<>>]
        ELSE [error |-> "", deps |-> SortDeps(st.deps)]

\* The result: error is "" and deps the sorted list, or error is the
\* message of the Error thrown and deps is empty.
readInstalledPackagesFromLockfile(config, lock) ==
    CASE lock.kind = "npm" ->
           LET st == ExtractLoop(config, [error |-> "", deps |-> <<>>], lock.packages)
           IN  IF st.error # "" THEN [error |-> st.error, deps |-> <<>>]
               ELSE [error |-> "", deps |-> SortDeps(st.deps)]
      [] lock.kind = "yarn" -> [error |-> "yaml.lock not supported yet", deps |-> <<>>]
      [] lock.kind = "pnpm" -> [error |-> "pnpm-lock.yaml not supported yet", deps |-> <<>>]
      [] OTHER              -> [error |-> "No lockfile found", deps |-> <<>>]

(***************************************************************************)
(* The npm registry and the downloads API, as the process sees them        *)
(***************************************************************************)

\* GET https://registry.npmjs.org/<name>: versions (with fields the policy
\* does not read) and time, the publish day of each version.  scripts is
\* the scripts object as its entries in key order.
RegistryData ==
    [ a |-> [ versions |->
                [ v \in {"1.0.0", "2.0.0"} |->
                    IF v = "1.0.0"
                    THEN [ license |-> "MIT",
                           scripts |-> << [script |-> "postinstall", value |-> "x"],
                                          [script |-> "test", value |-> "t"] >>,
                           dist    |-> "a-1.0.0.tgz" ]
                    ELSE [ license |-> Undefined,
                           scripts |-> << >>,
                           dist    |-> "a-2.0.0.tgz" ] ],
              time |-> [ v \in {"1.0.0", "2.0.0"} |-> IF v = "1.0.0" THEN -100 ELSE 0 ] ],
      b |-> [ versions |->
                [ v \in {"2.0.0"} |->
                    [ license |-> "GPL",
                      scripts |-> << [script |-> "install", value |-> "y"] >>,
                      dist    |-> "b-2.0.0.tgz" ] ],
              time |-> [ v \in {"2.0.0"} |-> -100 ] ] ]

\* GET https://api.npmjs.org/downloads/point/last-week/<name>: json.downloads.
DownloadCounts == [ a |-> 1000, b |-> 50 ]

\* program.option('--cache', 'Use cache', true): no flag turns it off.
optCache == TRUE

(***************************************************************************)
(* cacheRegistry                                                           *)
(*                                                                         *)
(* A cache file is [exists, _version, time, versions].                     *)
(***************************************************************************)

NoCacheFile == [ exists |-> FALSE, _version |-> 0, time |-> EmptyMap, versions |-> EmptyMap ]

\* The cache never read.
CacheHitNever(file, version) == FALSE

\* The hit test without the test of the cache version.
CacheHitAnyVersion(file, version) ==
    /\ optCache
    /\ file.exists
    /\ version \in DOMAIN file.versions

\* The first half: the file exists, parses, has cache version 1 and holds
\* the version asked for.
CacheHit(file, version) ==
    /\ optCache
    /\ file.exists
    /\ file._version = 1
    /\ version \in DOMAIN file.versions

\* requiredData: only license and scripts of each version are kept.
RequiredData(json) ==
    [ exists   |-> TRUE,
      _version |-> 1,
      time     |-> json.time,
      versions |-> [ v \in DOMAIN json.versions |->
                       [ license |-> json.versions[v].license,
                         scripts |-> json.versions[v].scripts ] ] ]

\* Answers of the registry that cacheRegistry rejects, for the version
\* 1.0.0 of five packages: no versions field (nv), the version missing from
\* versions (mv), no time field (nt), the version missing from time (mt),
\* and a timestamp of the version that is not a string (st).  An answer is
\* [hasVersions, versions, hasTime, time, stringTimes]: stringTimes are the
\* versions whose timestamp is a string.
DefectiveAnswers ==
    LET manifest == [ license |-> "MIT", scripts |-> << >>, dist |-> "x.tgz" ]
        both     == {"1.0.0", "2.0.0"}
        full     == [ hasVersions |-> TRUE,
                      versions    |-> [ v \in both |-> manifest ],
                      hasTime     |-> TRUE,
                      time        |-> [ v \in both |-> -100 ],
                      stringTimes |-> both ]
    IN  [ nv |-> [ full EXCEPT !.hasVersions = FALSE, !.versions = EmptyMap ],
          mv |-> [ full EXCEPT !.versions = [ v \in {"2.0.0"} |-> manifest ] ],
          nt |-> [ full EXCEPT !.hasTime = FALSE, !.time = EmptyMap, !.stringTimes = {} ],
          mt |-> [ full EXCEPT !.time = [ v \in {"2.0.0"} |-> -100 ],
                               !.stringTimes = {"2.0.0"} ],
          st |-> [ full EXCEPT !.stringTimes = {"2.0.0"} ] ]

\* The JSON answer of https://registry.npmjs.org/<name>.
RegistryAnswer(name) ==
    IF name \in DOMAIN RegistryData
    THEN [ hasVersions |-> TRUE,
           versions    |-> RegistryData[name].versions,
           hasTime     |-> TRUE,
           time        |-> RegistryData[name].time,
           stringTimes |-> DOMAIN RegistryData[name].time ]
    ELSE DefectiveAnswers[name]

\* The checks without the typeof test of the timestamp.
FetchRegistryAnyTimestamp(up, packageName, version) ==
    IF ~up \/ packageName \notin (DOMAIN RegistryData \cup DOMAIN DefectiveAnswers)
    THEN [ok |-> FALSE, data |-> NoCacheFile]
    ELSE LET json == RegistryAnswer(packageName)
         IN  IF \/ ~json.hasVersions
                \/ version \notin DOMAIN json.versions
                \/ ~json.hasTime
                \/ version \notin DOMAIN json.time
             THEN [ok |-> FALSE, data |-> NoCacheFile]
             ELSE [ok |-> TRUE, data |-> RequiredData(json)]

\* The second half: fetchJson and the checks of the response.  ok is FALSE
\* when fetchJson or a check throws; data is requiredData.
FetchRegistry(up, packageName, version) ==
    IF ~up \/ packageName \notin (DOMAIN RegistryData \cup DOMAIN DefectiveAnswers)
    THEN [ok |-> FALSE, data |-> NoCacheFile]
    ELSE LET json == RegistryAnswer(packageName)
         IN  IF \/ ~json.hasVersions
                \/ version \notin DOMAIN json.versions
                \/ ~json.hasTime
                \/ version \notin json.stringTimes
             THEN [ok |-> FALSE, data |-> NoCacheFile]
             ELSE [ok |-> TRUE, data |-> RequiredData(json)]

(***************************************************************************)
(* checkPackage: the warnings of one dependency from its registry record   *)
(***************************************************************************)

\* The list with a script npm install does not run.
scriptListWithTest == {"preinstall", "install", "postinstall", "prepare", "test"}

scriptList == {"preinstall", "install", "postinstall", "prepare"}

\* `${packageName}@${packageVersion}`
PackageNameVersion(packageName, packageVersion) ==
    packageName \o "@" \o Template(packageVersion)

\* The minPackageAge rule at day t.
AgeProblems(config, json, packageName, packageVersion, t) ==
    LET time    == json.time[packageVersion]
        daysAgo == t - time
        ts      == IF daysAgo > 1 THEN ToString(daysAgo) \o " days ago"
                   ELSE ToString(daysAgo * 24) \o " hours ago"
    IN  IF /\ config.minPackageAge # 0
           /\ packageVersion \in DOMAIN json.time
           /\ time > t - config.minPackageAge
        THEN << [ package  |-> PackageNameVersion(packageName, packageVersion),
                  message  |-> "is violating the package minAge policy. Last published " \o ts,
                  type     |-> "minPackageAge",
                  cacheKey |-> packageVersion ] >>
        ELSE << >>

\* The installation scripts rule, over the scripts in key order.
RECURSIVE ScriptProblems(_, _)
ScriptProblems(packageNameVersion, scripts) ==
    IF scripts = << >> THEN << >>
    ELSE LET s == Head(scripts)
         IN  (IF s.script \in scriptList
              THEN << [ package  |-> packageNameVersion,
                        message  |-> "will run script " \o s.script \o ": " \o s.value,
                        type     |-> "script",
                        cacheKey |-> s.script \o ": " \o s.value ] >>
              ELSE << >>)
             \o ScriptProblems(packageNameVersion, Tail(scripts))

\* The license rule reporting every license found, whitelisted or not.
LicenseProblemsNoWhitelist(config, json, packageName, packageVersion) ==
    LET license == json.versions[packageVersion].license
        pnv     == PackageNameVersion(packageName, packageVersion)
    IN  IF Len(config.licenses) = 0 \/ ~Truthy(license) THEN << >>
        ELSE << [ package  |-> pnv,
                  message  |-> "has license " \o license \o " which is not in the whitelist",
                  type     |-> "license",
                  cacheKey |-> license ] >>

\* The license rule.
LicenseProblems(config, json, packageName, packageVersion) ==
    LET license == json.versions[packageVersion].license
        pnv     == PackageNameVersion(packageName, packageVersion)
    IN  IF Len(config.licenses) = 0 THEN << >>
        ELSE (IF ~Truthy(license)
              THEN << [ package  |-> pnv,
                        message  |-> "has no license field in package.json",
                        type     |-> "license",
                        cacheKey |-> "no license" ] >>
              ELSE << >>)
             \o
             (IF Truthy(license) /\ license \notin Range(config.licenses)
              THEN << [ package  |-> pnv,
                        message  |-> "has license " \o license \o " which is not in the whitelist",
                        type     |-> "license",
                        cacheKey |-> license ] >>
              ELSE << >>)

\* checkPackage finding nothing.
checkPackageNoProblems(config, json, packageName, packageVersion, t) == << >>

\* checkPackage once cacheRegistry has returned json.
checkPackage(config, json, packageName, packageVersion, t) ==
    AgeProblems(config, json, packageName, packageVersion, t)
    \o ScriptProblems(PackageNameVersion(packageName, packageVersion),
                      json.versions[packageVersion].scripts)
    \o LicenseProblems(config, json, packageName, packageVersion)

(***************************************************************************)
(* The download check of processRepo                                       *)
(***************************************************************************)

\* The download check always on.
EnableDownloadCheckAlways(config) == TRUE

\* enableDownloadCheck
EnableDownloadCheck(config) ==
    config.minWeeklyDownloads # 0 /\ config.minWeeklyDownloads > 0

\* <cacheDir>/package-downloads.json is [exists, parses, data]; parses is
\* whether JSON.parse accepts the text.
NoDownloadCacheFile == [ exists |-> FALSE, parses |-> TRUE, data |-> EmptyMap ]

\* getPackageDownloadCache throws: JSON.parse rejects the text, and nothing
\* in getPackageDownloadCache or in processRepo catches it.
getPackageDownloadCacheThrows(file) == file.exists /\ ~file.parses

\* getPackageDownloadCache, when it returns.
getPackageDownloadCache(file) == IF file.exists THEN file.data ELSE EmptyMap

\* savePackageDownloadCache, when mkdir and writeFile succeed.
savePackageDownloadCache(cache) == [ exists |-> TRUE, parses |-> TRUE, data |-> cache ]

\* packageDownloadCache[dep.name] is truthy.
CachedDownloads(cache, name) == name \in DOMAIN cache /\ cache[name] # 0

\* The comparison of the count made inclusive.
DownloadProblemsInclusive(config, name, downloads) ==
    IF downloads # -1 /\ downloads <= config.minWeeklyDownloads
    THEN << [ package  |-> name,
              message  |-> "had " \o ToString(downloads) \o " downloads last week",
              type     |-> "minWeeklyDownloads",
              cacheKey |-> ToString(config.minWeeklyDownloads) ] >>
    ELSE << >>

\* The warning pushed for a download count.
DownloadProblems(config, name, downloads) ==
    IF downloads # -1 /\ downloads < config.minWeeklyDownloads
    THEN << [ package  |-> name,
              message  |-> "had " \o ToString(downloads) \o " downloads last week",
              type     |-> "minWeeklyDownloads",
              cacheKey |-> ToString(config.minWeeklyDownloads) ] >>
    ELSE << >>

\* packageDownloadCache[dep.name] = downloads, unless downloads is -1.
StoreDownloads(cache, name, downloads) ==
    IF downloads # -1
    THEN [ n \in DOMAIN cache \cup {name} |-> IF n = name THEN downloads ELSE cache[n] ]
    ELSE cache

(***************************************************************************)
(* The approval record of processRepo                                      *)
(*                                                                         *)
(* The file package-policy.lock is [exists, parses, hasVersion, version,    *)
(* hasPackages, packages]: parses is whether yaml.parse accepts the text,  *)
(* hasVersion and hasPackages whether the parsed data has these fields.    *)
(***************************************************************************)

NoApprovalFile ==
    [ exists |-> FALSE, parses |-> TRUE, hasVersion |-> FALSE, version |-> 0,
      hasPackages |-> FALSE, packages |-> << >> ]

\* The version test inverted.
readWarningsVersionInverted(file) ==
    IF ~file.exists THEN << >>
    ELSE IF ~file.hasPackages \/ (file.hasVersion /\ file.version = 1) THEN << >>
    ELSE file.packages

\* yaml.parse(await fs.readFile(lockfile, 'utf8')) throws: nothing in
\* readWarningsFromLockfile or in its callers catches it.
readWarningsThrows(file) == file.exists /\ ~file.parses

\* readWarningsFromLockfile, when yaml.parse returns.
readWarningsFromLockfile(file) ==
    IF ~file.exists THEN << >>
    ELSE IF ~file.hasPackages \/ ~file.hasVersion \/ file.version # 1 THEN << >>
    ELSE file.packages

\* The key of the cache index: `${c.package}${c.cacheKey}${c.type}`.
IndexKey(c) == c.package \o Template(c.cacheKey) \o c.type

\* cacheIndex, as the set of its keys.
CacheIndex(cacheData) == { IndexKey(cacheData[i]) : i \in 1..Len(cacheData) }

\* One entry of the rebuilt cacheData.
CacheEntry(problem) ==
    [ package |-> problem.package, type |-> problem.type, cacheKey |-> problem.cacheKey ]

\* cacheData.sort by package: stable.
RECURSIVE InsertEntry(_, _)
InsertEntry(x, sorted) ==
    IF sorted = << >> THEN << x >>
    ELSE IF StrLess(x.package, Head(sorted).package)
         THEN << x >> \o sorted
         ELSE << Head(sorted) >> \o InsertEntry(x, Tail(sorted))

RECURSIVE SortEntries(_)
SortEntries(seq) ==
    IF seq = << >> THEN << >>
    ELSE InsertEntry(seq[Len(seq)], SortEntries(SubSeq(seq, 1, Len(seq) - 1)))

\* The fill loop stopping one problem short.
RebuildCacheDataShort(problems) ==
    SortEntries([ i \in 1..(Len(problems) - 1) |-> CacheEntry(problems[i]) ])

\* cacheData reset and filled with the current problems, then sorted.
RebuildCacheData(problems) ==
    SortEntries([ i \in 1..Len(problems) |-> CacheEntry(problems[i]) ])

\* The filter left out: every problem is kept, approved or not.
FilterApprovedKeepAll(problems, index) == problems

\* warnings.filter: the problems whose key is not in the cache index.
RECURSIVE FilterApproved(_, _)
FilterApproved(problems, index) ==
    IF problems = << >> THEN << >>
    ELSE (IF IndexKey(Head(problems)) \in index THEN << >> ELSE << Head(problems) >>)
         \o FilterApproved(Tail(problems), index)

\* The record written under another format version than the one read.
WrittenApprovalFileVersion2(cacheData) ==
    [ exists |-> TRUE, parses |-> TRUE, hasVersion |-> TRUE, version |-> 2,
      hasPackages |-> TRUE, packages |-> cacheData ]

\* yaml.stringify({version: 1, packages: cacheData}) as the file it makes.
WrittenApprovalFile(cacheData) ==
    [ exists |-> TRUE, parses |-> TRUE, hasVersion |-> TRUE, version |-> 1,
      hasPackages |-> TRUE, packages |-> cacheData ]


(***************************************************************************)
(* The state                                                               *)
(***************************************************************************)

VARIABLES
    \* the directory, the cache directory and the world outside
    lockfile,            \* which lockfile the directory holds, and its packages
    policyFile,          \* package-policy.yml
    now,                 \* Date.now(), in days
    registryUp,          \* whether registry.npmjs.org answers
    approvalFile,        \* package-policy.lock
    registryCache,       \* <cacheDir>/<name>.json, by package name
    downloadCacheFile,   \* <cacheDir>/package-downloads.json
    \* one process: main and processRepo
    pc,                  \* idle, processRepo, batch, prompt, exited
    ci,                  \* program.getOptionValue('ci')
    config,
    prior,               \* cacheData as read from package-policy.lock
    deps,
    chunk,               \* i of the batch loop
    stage,               \* of each dependency: pending, cache, fetch, downloads, done
    collected,           \* warnings, as pushed by the evaluations
    checkedPackageDownloads,
    packageDownloadCache,
    cacheData,           \* the rebuilt record
    warnings,            \* warnings after the filter: those to approve
    detectedUncheckedProblems, \* warnings.length after the filter; -1 before
    typed,               \* the line typed at the prompt; Undefined before
    exitCode,            \* -1 while the process runs
    failure,             \* the message of the Error that ended the process, or ""
    \* what the process has done so far
    netCalls,            \* the URLs requested, each with its number of requests
    prompted,            \* read() was called
    fileAtStart,         \* package-policy.lock when the process started
    \* history over the processes
    unchangedSinceAccept,\* no input of the pipeline changed since the last accepted write
    tracked,             \* one identity that was accepted and persisted, or <<>>
    trackedKept          \* every record written since then contains it

envVars  == << lockfile, policyFile, now, registryUp >>
diskVars == << approvalFile, registryCache, downloadCacheFile >>
runVars  == << ci, config, prior, deps, chunk, stage, collected,
               checkedPackageDownloads, packageDownloadCache, cacheData, warnings,
               detectedUncheckedProblems, typed, failure, netCalls, prompted,
               fileAtStart >>
histVars == << unchangedSinceAccept, tracked, trackedKept >>
vars     == << envVars, diskVars, pc, exitCode, runVars, histVars >>

(***************************************************************************)
(* The directories and policies of the model                               *)
(***************************************************************************)

Entry(path, version) ==
    [ path |-> path, name |-> Undefined, version |-> version,
      link |-> FALSE, license |-> Undefined ]

RootEntry == [ path |-> "", name |-> "root", version |-> "0.0.1",
               link |-> FALSE, license |-> "MIT" ]

Lockfiles ==
    { [ kind |-> "npm",
        packages |-> << RootEntry, Entry("node_modules/a", "1.0.0"),
                        Entry("node_modules/b", "2.0.0") >> ],
      [ kind |-> "npm",
        packages |-> << RootEntry, Entry("node_modules/a", "1.0.0"),
                        Entry("node_modules/b", "2.0.0"),
                        Entry("node_modules/b/node_modules/a", "2.0.0") >> ],
      [ kind |-> "npm",
        packages |-> << RootEntry, Entry("node_modules/a", "1.0.0") >> ],
      [ kind |-> "npm",
        packages |-> << RootEntry, Entry("node_modules/a", "1.0.0"),
                        [ Entry("node_modules/b", "2.0.0") EXCEPT !.link = TRUE ] >> ] }

NoPolicyFile == [ exists |-> FALSE, data |-> EmptyMap ]

PolicyData ==
    { [ licenses |-> << "MIT" >> ],
      [ blacklist |-> [ b |-> "*" ], ignore |-> [ b |-> "2.0.0" ] ],
      [ block |-> [ b |-> "*" ] ],
      [ blacklist |-> [ b |-> "" ] ],
      [ ignore |-> [ b |-> "*" ] ],
      [ ignore |-> [ a |-> "2.0.0" ] ] }

PolicyFiles == { NoPolicyFile } \cup { [ exists |-> TRUE, data |-> d ] : d \in PolicyData }

\* The last day of the model.
MaxNow == 2

\* What the user types at the prompt; "" is a bare return.
Inputs == { "y", "n", "", "Y", "yes" }

\* The bag of network requests.
NoCalls == [ u \in {} |-> 0 ]

\* A request counted twice.
RequestTwice(calls, url) ==
    [ u \in DOMAIN calls \cup {url} |->
        IF u = url THEN (IF u \in DOMAIN calls THEN calls[u] + 2 ELSE 2) ELSE calls[u] ]

Request(calls, url) ==
    [ u \in DOMAIN calls \cup {url} |->
        IF u = url THEN (IF u \in DOMAIN calls THEN calls[u] + 1 ELSE 1) ELSE calls[u] ]

AdvisoriesUrl == "https://raw.githubusercontent.com/nodejs/security-wg/refs/heads/main/vuln/core/index.json"
RegistryUrl(name) == "https://registry.npmjs.org/" \o name
DownloadsUrl(name) == "https://api.npmjs.org/downloads/point/last-week/" \o name

\* The identity of a warning or of a record entry.
Identity(w) == << w.package, w.type, w.cacheKey >>
Identities(seq) == { Identity(seq[i]) : i \in 1..Len(seq) }

(***************************************************************************)
(* Init                                                                    *)
(***************************************************************************)

RunInit ==
    /\ ci = FALSE
    /\ config = defaultConfig
    /\ prior = << >>
    /\ deps = << >>
    /\ chunk = 0
    /\ stage = << >>
    /\ collected = << >>
    /\ checkedPackageDownloads = {}
    /\ packageDownloadCache = EmptyMap
    /\ cacheData = << >>
    /\ warnings = << >>
    /\ detectedUncheckedProblems = -1
    /\ typed = Undefined
    /\ failure = ""
    /\ netCalls = NoCalls
    /\ prompted = FALSE
    /\ fileAtStart = NoApprovalFile

Init ==
    /\ lockfile = CHOOSE l \in Lockfiles : Len(l.packages) = 3 /\ l.packages[3].version = "2.0.0"
    /\ policyFile = NoPolicyFile
    /\ now = 0
    /\ registryUp = TRUE
    /\ approvalFile = NoApprovalFile
    /\ registryCache = [ n \in DOMAIN RegistryData |-> NoCacheFile ]
    /\ downloadCacheFile = NoDownloadCacheFile
    /\ pc = "idle"
    /\ exitCode = -1
    /\ RunInit
    /\ unchangedSinceAccept = FALSE
    /\ tracked = << >>
    /\ trackedKept = FALSE


(***************************************************************************)
(* main                                                                    *)
(***************************************************************************)

\* process.exit(code), or the process dying of an Error nobody caught.
Exit(code, message) ==
    /\ pc' = "exited"
    /\ exitCode' = code
    /\ failure' = message

\* main up to the call of processRepo: the options are parsed, the Node.js
\* advisories are fetched (--check-node-version is true) and the running
\* node version is checked; engines.node of package.json is checked against
\* the advisories already in memory.  advisory is how that goes.
Main(ciOption, advisory) ==
    /\ pc = "idle"
    /\ ci' = ciOption
    /\ netCalls' = Request(netCalls, AdvisoriesUrl)
    /\ fileAtStart' = approvalFile
    /\ CASE advisory = "vulnerable" -> Exit(2, "")
         [] advisory = "unreachable" -> Exit(1, "fetch failed")
         [] OTHER -> /\ pc' = "processRepo"
                     /\ UNCHANGED << exitCode, failure >>
    /\ UNCHANGED << envVars, diskVars, histVars, config, prior, deps, chunk, stage,
                    collected, checkedPackageDownloads, packageDownloadCache,
                    cacheData, warnings, detectedUncheckedProblems, typed, prompted >>

(***************************************************************************)
(* processRepo: from its start to the first batch                          *)
(***************************************************************************)

batchSize == 32

\* The stages after slice i..i+batchSize of deps is mapped: every
\* dependency of the slice has called checkPackage and waits for the cache.
StartSlice(stages, i) ==
    [ k \in DOMAIN stages |->
        IF k > i /\ k <= i + batchSize THEN "cache" ELSE stages[k] ]

\* The Errors that end the process when a file does not parse.
YamlParseError == "YAMLParseError"
JsonSyntaxError == "SyntaxError: Unexpected token in JSON"

\* The Error of a failed mkdir or writeFile.
WriteError == "EACCES: permission denied"

ProcessRepo ==
    /\ pc = "processRepo"
    /\ LET cfg == getConfig(policyFile)
           got == readInstalledPackagesFromLockfile(cfg, lockfile)
       IN  /\ config' = cfg
           /\ IF readWarningsThrows(approvalFile)
              THEN /\ Exit(1, YamlParseError)
                   /\ UNCHANGED << prior, deps, stage, packageDownloadCache >>
              ELSE
              /\ prior' = readWarningsFromLockfile(approvalFile)
              /\ IF got.error # ""
                 THEN /\ Exit(1, got.error)
                      /\ UNCHANGED << deps, stage, packageDownloadCache >>
                 ELSE
                 /\ deps' = got.deps
                 /\ IF optCache /\ getPackageDownloadCacheThrows(downloadCacheFile)
                    THEN /\ Exit(1, JsonSyntaxError)
                         /\ UNCHANGED << stage, packageDownloadCache >>
                    ELSE /\ packageDownloadCache' =
                              IF optCache THEN getPackageDownloadCache(downloadCacheFile)
                              ELSE EmptyMap
                         /\ stage' = StartSlice([ k \in 1..Len(got.deps) |-> "pending" ], 0)
                         /\ pc' = "batch"
                         /\ UNCHANGED << exitCode, failure >>
    /\ chunk' = 0
    /\ UNCHANGED << envVars, diskVars, histVars, ci, collected, checkedPackageDownloads,
                    cacheData, warnings, detectedUncheckedProblems, typed, netCalls,
                    prompted, fileAtStart >>

(***************************************************************************)
(* The evaluation of one dependency: the async callback of slice.map       *)
(***************************************************************************)

\* From `warnings.push(...p)` to the next await or to the end of the
\* callback: the problems of checkPackage are pushed; if the downloads of
\* the name are to be checked and are in the cache, they are judged at
\* once, and if they are not, the downloads API is requested.
AfterCheckPackage(k, p) ==
    LET name == deps[k].name
    IN  IF EnableDownloadCheck(config) /\ name \notin checkedPackageDownloads
        THEN IF CachedDownloads(packageDownloadCache, name)
             THEN LET downloads == packageDownloadCache[name]
                  IN  /\ collected' = collected \o p \o DownloadProblems(config, name, downloads)
                      /\ checkedPackageDownloads' = checkedPackageDownloads \cup {name}
                      /\ packageDownloadCache' =
                            StoreDownloads(packageDownloadCache, name, downloads)
                      /\ stage' = [stage EXCEPT ![k] = "done"]
                      /\ netCalls' = netCalls
             ELSE /\ collected' = collected \o p
                  /\ stage' = [stage EXCEPT ![k] = "downloads"]
                  /\ netCalls' = Request(netCalls, DownloadsUrl(name))
                  /\ UNCHANGED << checkedPackageDownloads, packageDownloadCache >>
        ELSE /\ collected' = collected \o p
             /\ stage' = [stage EXCEPT ![k] = "done"]
             /\ UNCHANGED << checkedPackageDownloads, packageDownloadCache, netCalls >>

\* A placeholder problem pushed for a dependency that could not be checked.
ProblemsAtCatchPlaceholder(packageName, packageVersion) ==
    << [ package  |-> PackageNameVersion(packageName, packageVersion),
         message  |-> "could not be checked",
         type     |-> "registry",
         cacheKey |-> packageVersion ] >>

\* `problems` when the catch of checkPackage is entered from cacheRegistry:
\* still empty, and returned as it is.
ProblemsAtCatch(packageName, packageVersion) == << >>

\* cacheRegistry reads the cache file of the package: on a hit checkPackage
\* goes on with the cached record, otherwise the registry is requested.
CacheLookup(k) ==
    /\ pc = "batch"
    /\ k \in DOMAIN stage
    /\ stage[k] = "cache"
    /\ LET dep  == deps[k]
           file == registryCache[dep.name]
       IN  IF dep.name \in DOMAIN registryCache /\ CacheHit(file, dep.version)
           THEN AfterCheckPackage(k, checkPackage(config, file, dep.name, dep.version, now))
           ELSE /\ stage' = [stage EXCEPT ![k] = "fetch"]
                /\ netCalls' = Request(netCalls, RegistryUrl(dep.name))
                /\ UNCHANGED << collected, checkedPackageDownloads, packageDownloadCache >>
    /\ UNCHANGED << envVars, diskVars, histVars, pc, exitCode, ci, config, prior, deps,
                    chunk, cacheData, warnings, detectedUncheckedProblems, typed, failure,
                    prompted, fileAtStart >>

\* The registry answers (or fails to): cacheRegistry checks the answer,
\* writes the cache file and returns, and checkPackage computes the
\* problems; an Error is caught by checkPackage, which then returns [].
\* wrote is whether mkdir and writeFile of the cache file succeed: their
\* Error is caught and logged by cacheRegistry.
RegistryResponse(k, wrote) ==
    /\ pc = "batch"
    /\ k \in DOMAIN stage
    /\ stage[k] = "fetch"
    /\ LET dep == deps[k]
           got == FetchRegistry(registryUp, dep.name, dep.version)
       IN  IF got.ok
           THEN /\ registryCache' =
                     IF optCache /\ wrote
                     THEN [registryCache EXCEPT ![dep.name] = got.data]
                     ELSE registryCache
                /\ AfterCheckPackage(k, checkPackage(config, got.data, dep.name, dep.version, now))
           ELSE /\ UNCHANGED registryCache
                /\ AfterCheckPackage(k, ProblemsAtCatch(dep.name, dep.version))
    /\ UNCHANGED << envVars, approvalFile, downloadCacheFile, histVars, pc, exitCode, ci,
                    config, prior, deps, chunk, cacheData, warnings,
                    detectedUncheckedProblems, typed, failure, prompted, fileAtStart >>

\* checkPackageDownloads returns json.downloads.
DownloadsResponse(k) ==
    /\ pc = "batch"
    /\ k \in DOMAIN stage
    /\ stage[k] = "downloads"
    /\ deps[k].name \in DOMAIN DownloadCounts
    /\ LET name      == deps[k].name
           downloads == DownloadCounts[name]
       IN  /\ checkedPackageDownloads' = checkedPackageDownloads \cup {name}
           /\ packageDownloadCache' = StoreDownloads(packageDownloadCache, name, downloads)
           /\ collected' = collected \o DownloadProblems(config, name, downloads)
           /\ stage' = [stage EXCEPT ![k] = "done"]
    /\ UNCHANGED << envVars, diskVars, histVars, pc, exitCode, ci, config, prior, deps,
                    chunk, cacheData, warnings, detectedUncheckedProblems, typed, failure,
                    netCalls, prompted, fileAtStart >>

\* The Error of checkPackageDownloads.
DownloadsError == "Bad response: no downloads field"

\* checkPackageDownloads throws (fetch fails, or the answer has no numeric
\* downloads field): nothing catches it, Promise.all rejects, processRepo
\* and main reject and the process dies.
DownloadsFailure(k) ==
    /\ pc = "batch"
    /\ k \in DOMAIN stage
    /\ stage[k] = "downloads"
    /\ Exit(1, DownloadsError)
    /\ UNCHANGED << envVars, diskVars, histVars, ci, config, prior, deps, chunk, stage,
                    collected, checkedPackageDownloads, packageDownloadCache, cacheData,
                    warnings, detectedUncheckedProblems, typed, netCalls, prompted,
                    fileAtStart >>


(***************************************************************************)
(* processRepo: after the batches                                          *)
(***************************************************************************)

\* Promise.all not waiting for the callbacks.
SliceDoneAtOnce == TRUE

\* Every callback of the current slice has returned.
SliceDone == \A k \in DOMAIN stage : stage[k] \in {"pending", "done"}

\* The decision without the CI test.
DecideIgnoringCi(count, ciMode) ==
    IF count = 0 THEN "return" ELSE "prompt"

\* The decision without the test for zero.
DecideWithoutZeroTest(count, ciMode) ==
    IF ciMode THEN "exit" ELSE "prompt"

\* What processRepo does with the count of warnings left to approve:
\* return, process.exit(1) in CI mode, or prompt.
Decide(count, ciMode) ==
    IF count = 0 THEN "return"
    ELSE IF ciMode THEN "exit"
    ELSE "prompt"

\* Promise.all of the current slice resolves.  If dependencies are left the
\* next slice starts; otherwise processRepo runs to its end or to the
\* prompt: the cache index is built from the record read at the start,
\* cacheData is rebuilt and sorted, the approved warnings are filtered out,
\* the download cache is saved, and the count of warnings left decides.
\* saved is whether mkdir and writeFile of savePackageDownloadCache succeed:
\* nothing catches their Error, which ends the process before the count.
AfterBatch(saved) ==
    /\ pc = "batch"
    /\ SliceDone
    /\ IF chunk + batchSize < Len(deps)
       THEN /\ chunk' = chunk + batchSize
            /\ stage' = StartSlice(stage, chunk + batchSize)
            /\ UNCHANGED << pc, exitCode, failure, cacheData, warnings,
                            detectedUncheckedProblems, downloadCacheFile, prompted >>
       ELSE LET cacheIndex == CacheIndex(prior)
                left       == FilterApproved(collected, cacheIndex)
                decision   == Decide(Len(left), ci)
                saves      == optCache /\ EnableDownloadCheck(config)
            IN  /\ cacheData' = RebuildCacheData(collected)
                /\ warnings' = left
                /\ IF saves /\ ~saved
                   THEN /\ Exit(1, WriteError)
                        /\ UNCHANGED << detectedUncheckedProblems, downloadCacheFile,
                                        prompted >>
                   ELSE
                   /\ detectedUncheckedProblems' = Len(left)
                   /\ downloadCacheFile' =
                        IF saves THEN savePackageDownloadCache(packageDownloadCache)
                        ELSE downloadCacheFile
                   /\ CASE decision = "return" -> Exit(0, "") /\ UNCHANGED prompted
                        [] decision = "exit"   -> Exit(1, "") /\ UNCHANGED prompted
                        [] OTHER               -> /\ prompted' = TRUE
                                                  /\ pc' = "prompt"
                                                  /\ UNCHANGED << exitCode, failure >>
                /\ UNCHANGED << chunk, stage >>
    /\ UNCHANGED << envVars, approvalFile, registryCache, histVars, ci, config, prior,
                    deps, collected, checkedPackageDownloads, packageDownloadCache,
                    typed, netCalls, fileAtStart >>

\* read() without a default.
ReadResultNoDefault(input) == input

\* read({prompt: 'Continue? [y/n]', default: 'y'}): the line typed, or the
\* default when the line is empty.
ReadResult(input) == IF input = "" THEN "y" ELSE input

\* The switch on the result of the prompt.  On 'y' the record is written.
Answer(input) ==
    /\ pc = "prompt"
    /\ typed' = input
    /\ IF ReadResult(input) = "y"
       THEN /\ approvalFile' = WrittenApprovalFile(cacheData)
            /\ Exit(0, "")
       ELSE /\ Exit(1, "")
            /\ UNCHANGED approvalFile
    /\ UNCHANGED << envVars, registryCache, downloadCacheFile, histVars, ci, config,
                    prior, deps, chunk, stage, collected, checkedPackageDownloads,
                    packageDownloadCache, cacheData, warnings,
                    detectedUncheckedProblems, netCalls, prompted, fileAtStart >>

(***************************************************************************)
(* Between two processes                                                   *)
(***************************************************************************)

\* The process ended by writing the record the user accepted.
Accepted == pc = "exited" /\ prompted /\ exitCode = 0

\* The process is gone; the next one starts from scratch.  The history is
\* brought up to date: after an accepted write no input has changed yet; the
\* identity tracked is chosen, once, among those of a record written, and it
\* is kept until a record is written that does not contain it.
EndOfProcess(tracking) ==
    /\ pc = "exited"
    /\ unchangedSinceAccept' = (Accepted \/ unchangedSinceAccept)
    /\ tracked' \in IF tracking /\ Accepted /\ tracked = << >>
                    THEN { << >> } \cup Identities(cacheData)
                    ELSE { tracked }
    /\ trackedKept' = IF Accepted
                      THEN /\ tracked' \in Identities(cacheData)
                           /\ (tracked = << >> \/ trackedKept)
                      ELSE trackedKept
    /\ pc' = "idle"
    /\ exitCode' = -1
    /\ ci' = FALSE
    /\ config' = defaultConfig
    /\ prior' = << >>
    /\ deps' = << >>
    /\ chunk' = 0
    /\ stage' = << >>
    /\ collected' = << >>
    /\ checkedPackageDownloads' = {}
    /\ packageDownloadCache' = EmptyMap
    /\ cacheData' = << >>
    /\ warnings' = << >>
    /\ detectedUncheckedProblems' = -1
    /\ typed' = Undefined
    /\ failure' = ""
    /\ netCalls' = NoCalls
    /\ prompted' = FALSE
    /\ fileAtStart' = NoApprovalFile
    /\ UNCHANGED << envVars, diskVars >>

\* Without the history of one identity, and with it.
Restart == EndOfProcess(FALSE)
RestartTracking == EndOfProcess(TRUE)

\* npm install changes the lockfile.
ChangeLockfile(l) ==
    /\ pc = "idle"
    /\ l # lockfile
    /\ lockfile' = l
    /\ unchangedSinceAccept' = FALSE
    /\ UNCHANGED << policyFile, now, registryUp, diskVars, pc, exitCode, runVars,
                    tracked, trackedKept >>

\* The operator edits package-policy.yml.
ChangePolicy(p) ==
    /\ pc = "idle"
    /\ p # policyFile
    /\ policyFile' = p
    /\ unchangedSinceAccept' = FALSE
    /\ UNCHANGED << lockfile, now, registryUp, diskVars, pc, exitCode, runVars,
                    tracked, trackedKept >>

\* The registry becomes unreachable, or reachable again.
RegistryOutage ==
    /\ pc = "idle"
    /\ registryUp' = ~registryUp
    /\ unchangedSinceAccept' = FALSE
    /\ UNCHANGED << lockfile, policyFile, now, diskVars, pc, exitCode, runVars,
                    tracked, trackedKept >>

\* A day passes.
Tick ==
    /\ pc = "idle"
    /\ now < MaxNow
    /\ now' = now + 1
    /\ UNCHANGED << lockfile, policyFile, registryUp, diskVars, pc, exitCode, runVars,
                    histVars >>

(***************************************************************************)
(* The specification: any number of processes on one directory             *)
(***************************************************************************)

Step ==
    \/ \E c \in BOOLEAN, adv \in {"ok", "vulnerable", "unreachable"} : Main(c, adv)
    \/ ProcessRepo
    \/ \E k \in 1..Len(deps) : CacheLookup(k)
    \/ \E k \in 1..Len(deps) : RegistryResponse(k, TRUE)
    \/ \E k \in 1..Len(deps) : DownloadsResponse(k)
    \/ \E k \in 1..Len(deps) : DownloadsFailure(k)
    \/ AfterBatch(TRUE)
    \/ \E input \in Inputs : Answer(input)
    \/ \E l \in Lockfiles : ChangeLockfile(l)
    \/ \E p \in PolicyFiles : ChangePolicy(p)
    \/ RegistryOutage
    \/ Tick

Next == Step \/ Restart

Spec == Init /\ [][Next]_vars

\* The same processes, with the history of one accepted identity.
NextTracking == Step \/ RestartTracking

SpecTracking == Init /\ [][NextTracking]_vars

(***************************************************************************)
(* The files of the directory and of the cache directory in any condition  *)
(***************************************************************************)

\* The registry cache file of a written before day 0, when a had no
\* version 2.0.0 yet.
StaleCacheFile ==
    [ exists   |-> TRUE,
      _version |-> 1,
      time     |-> [ v \in {"1.0.0"} |-> RegistryData.a.time[v] ],
      versions |-> [ v \in {"1.0.0"} |->
                       [ license |-> RegistryData.a.versions[v].license,
                         scripts |-> RegistryData.a.versions[v].scripts ] ] ]

\* A registry cache file that JSON.parse rejects or whose _version is not 1.
CorruptCacheFile == [ NoCacheFile EXCEPT !.exists = TRUE ]

\* What can happen to package-policy.lock outside the program.
Damages == { "corrupt", "noPackages", "noVersion", "version2", "removed" }

Damaged(file, kind) ==
    CASE kind = "corrupt"    -> [ NoApprovalFile EXCEPT !.exists = TRUE, !.parses = FALSE ]
      [] kind = "noPackages" -> [ NoApprovalFile EXCEPT !.exists = TRUE, !.hasVersion = TRUE,
                                                        !.version = 1 ]
      [] kind = "noVersion"  -> [ file EXCEPT !.exists = TRUE, !.parses = TRUE,
                                              !.hasPackages = TRUE, !.hasVersion = FALSE,
                                              !.version = 0 ]
      [] kind = "version2"   -> [ file EXCEPT !.exists = TRUE, !.parses = TRUE,
                                              !.hasPackages = TRUE, !.hasVersion = TRUE,
                                              !.version = 2 ]
      [] OTHER               -> NoApprovalFile

InitFiles ==
    /\ lockfile = CHOOSE l \in Lockfiles : Len(l.packages) = 4
    /\ policyFile = NoPolicyFile
    /\ now = 0
    /\ registryUp \in BOOLEAN
    /\ approvalFile = NoApprovalFile
    /\ registryCache \in { [ n \in DOMAIN RegistryData |-> NoCacheFile ],
                            [ n \in DOMAIN RegistryData |->
                                IF n = "a" THEN StaleCacheFile ELSE NoCacheFile ] }
    /\ downloadCacheFile = NoDownloadCacheFile
    /\ pc = "idle"
    /\ exitCode = -1
    /\ RunInit
    /\ unchangedSinceAccept = FALSE
    /\ tracked = << >>
    /\ trackedKept = FALSE

\* package-policy.lock is edited, merged or removed between two runs.
DamageApprovalFile(kind) ==
    /\ pc = "idle"
    /\ approvalFile' = Damaged(approvalFile, kind)
    /\ approvalFile' # approvalFile
    /\ unchangedSinceAccept' = FALSE
    /\ UNCHANGED << envVars, registryCache, downloadCacheFile, pc, exitCode, runVars,
                    tracked, trackedKept >>

\* A file of the cache directory is truncated or overwritten between two runs.
CorruptRegistryCache(name) ==
    /\ pc = "idle"
    /\ registryCache[name].exists
    /\ registryCache[name] # CorruptCacheFile
    /\ registryCache' = [ registryCache EXCEPT ![name] = CorruptCacheFile ]
    /\ UNCHANGED << envVars, approvalFile, downloadCacheFile, pc, exitCode, runVars,
                    histVars >>

CorruptDownloadCache ==
    /\ pc = "idle"
    /\ downloadCacheFile.exists
    /\ downloadCacheFile.parses
    /\ downloadCacheFile' = [ downloadCacheFile EXCEPT !.parses = FALSE, !.data = EmptyMap ]
    /\ UNCHANGED << envVars, approvalFile, registryCache, pc, exitCode, runVars,
                    histVars >>

NextFiles ==
    \/ \E c \in BOOLEAN, adv \in {"ok", "vulnerable", "unreachable"} : Main(c, adv)
    \/ ProcessRepo
    \/ \E k \in 1..Len(deps) : CacheLookup(k)
    \/ \E k \in 1..Len(deps), wrote \in BOOLEAN : RegistryResponse(k, wrote)
    \/ \E k \in 1..Len(deps) : DownloadsResponse(k)
    \/ \E k \in 1..Len(deps) : DownloadsFailure(k)
    \/ \E saved \in BOOLEAN : AfterBatch(saved)
    \/ \E input \in Inputs : Answer(input)
    \/ Restart
    \/ \E kind \in Damages : DamageApprovalFile(kind)
    \/ \E name \in DOMAIN RegistryData : CorruptRegistryCache(name)
    \/ CorruptDownloadCache

SpecFiles == InitFiles /\ [][NextFiles]_vars

(***************************************************************************)
(* One run on a directory with more dependencies than one batch            *)
(***************************************************************************)

\* The names a01, a02, ...: packages the registry does not know (404).
UnknownName(i) == "a" \o ToString(i \div 10) \o ToString(i % 10)

\* a, batchSize - 1 packages the registry does not know, and b: sorted by
\* name, a and the unknown packages fill the first batch and b is alone in
\* the second.
BatchLockfile ==
    [ kind |-> "npm",
      packages |-> << RootEntry, Entry("node_modules/b", "2.0.0") >>
                   \o [ i \in 1..(batchSize - 1) |->
                          Entry("node_modules/" \o UnknownName(i), "1.0.0") ]
                   \o << Entry("node_modules/a", "1.0.0") >> ]

\* The download check left on, and turned off.
BatchPolicies ==
    { NoPolicyFile, [ exists |-> TRUE, data |-> [ minWeeklyDownloads |-> 0 ] ] }

\* How many evaluations that started earlier and are still in flight an
\* evaluation may overtake.
MaxOvertake == 1

InFlight == { k \in DOMAIN stage : stage[k] \notin {"pending", "done"} }

\* The order in which the answers of the file system and of the network
\* arrive, within the bound.
Schedulable(k) == Cardinality({ j \in InFlight : j < k }) <= MaxOvertake

InitBatch ==
    /\ lockfile = BatchLockfile
    /\ policyFile \in BatchPolicies
    /\ now = 0
    /\ registryUp = TRUE
    /\ approvalFile = NoApprovalFile
    /\ registryCache = [ n \in DOMAIN RegistryData |-> NoCacheFile ]
    /\ downloadCacheFile = NoDownloadCacheFile
    /\ pc = "idle"
    /\ exitCode = -1
    /\ RunInit
    /\ unchangedSinceAccept = FALSE
    /\ tracked = << >>
    /\ trackedKept = FALSE

NextBatch ==
    \/ \E c \in BOOLEAN, adv \in {"ok", "vulnerable", "unreachable"} : Main(c, adv)
    \/ ProcessRepo
    \/ \E k \in 1..Len(deps) : Schedulable(k) /\ CacheLookup(k)
    \/ \E k \in 1..Len(deps) : Schedulable(k) /\ RegistryResponse(k, TRUE)
    \/ \E k \in 1..Len(deps) : Schedulable(k) /\ DownloadsResponse(k)
    \/ \E k \in 1..Len(deps) : Schedulable(k) /\ DownloadsFailure(k)
    \/ AfterBatch(TRUE)
    \/ \E input \in Inputs : Answer(input)

SpecBatch == InitBatch /\ [][NextBatch]_vars

(***************************************************************************)
(* The extractor alone, on every lockfile of at most MaxEntries entries    *)
(***************************************************************************)

MaxEntries == 3

\* Entries: the root, two install paths of a, one of b, each at two versions,
\* installed or linked, and b's path with an explicit name a.
ExtractEntries ==
    { RootEntry }
    \cup { [ Entry(path, v) EXCEPT !.link = l ] :
             path \in { "node_modules/a", "node_modules/b/node_modules/a", "node_modules/b" },
             v \in Versions, l \in BOOLEAN }
    \cup { [ Entry("node_modules/b", v) EXCEPT !.name = "a" ] : v \in Versions }

RECURSIVE SeqsUpTo(_, _)
SeqsUpTo(S, n) ==
    IF n = 0 THEN { << >> }
    ELSE LET shorter == SeqsUpTo(S, n - 1)
         IN  shorter \cup { Append(q, x) : q \in { r \in shorter : Len(r) = n - 1 }, x \in S }

ExtractPolicies ==
    { NoPolicyFile,
      [ exists |-> TRUE, data |-> [ blacklist |-> [ a |-> "2.0.0" ] ] ],
      [ exists |-> TRUE, data |-> [ ignore |-> [ a |-> "1.0.0" ] ] ] }

InitExtract ==
    /\ lockfile \in { [ kind |-> "npm", packages |-> q ] : q \in SeqsUpTo(ExtractEntries, MaxEntries) }
    /\ policyFile \in ExtractPolicies
    /\ now = 0
    /\ registryUp = TRUE
    /\ approvalFile = NoApprovalFile
    /\ registryCache = [ n \in DOMAIN RegistryData |-> NoCacheFile ]
    /\ downloadCacheFile = NoDownloadCacheFile
    /\ pc = "idle"
    /\ exitCode = -1
    /\ RunInit
    /\ unchangedSinceAccept = FALSE
    /\ tracked = << >>
    /\ trackedKept = FALSE

\* readInstalledPackagesFromLockfile is called and returns or throws.
Extract ==
    /\ pc = "idle"
    /\ LET cfg == getConfig(policyFile)
           got == readInstalledPackagesFromLockfile(cfg, lockfile)
       IN  /\ config' = cfg
           /\ deps' = got.deps
           /\ failure' = got.error
    /\ pc' = "extracted"
    /\ UNCHANGED << envVars, diskVars, histVars, exitCode, ci, prior, chunk, stage,
                    collected, checkedPackageDownloads, packageDownloadCache, cacheData,
                    warnings, detectedUncheckedProblems, typed, netCalls, prompted,
                    fileAtStart >>

SpecExtract == InitExtract /\ [][Extract]_vars

(***************************************************************************)
(* One run on every manifest, policy and cache of a small directory        *)
(***************************************************************************)

\* The largest minPackageAge of the policies, in days; the publish days go
\* from MaxAge + 1 days before the run to MaxAge days after it (the clock
\* of the machine can be behind the clock of the registry).
MaxAge == 2

\* Scripts objects of a manifest, as entries in key order.
RuleScripts ==
    { << >>,
      << [script |-> "postinstall", value |-> "x"] >>,
      << [script |-> "postinstall", value |-> "y"] >>,
      << [script |-> "test", value |-> "t"], [script |-> "build", value |-> "b"] >>,
      << [script |-> "prepare", value |-> "p"], [script |-> "preinstall", value |-> "q"],
         [script |-> "install", value |-> "i"], [script |-> "postinstall", value |-> "x"],
         [script |-> "test", value |-> "t"] >> }

\* <cacheDir>/a.json as an earlier run wrote it, for each manifest and
\* publish day that a@1.0.0 can have.
RuleRecords ==
    { [ exists   |-> TRUE,
        _version |-> 1,
        time     |-> [ v \in {"1.0.0"} |-> t ],
        versions |-> [ v \in {"1.0.0"} |-> [ license |-> l, scripts |-> sc ] ] ] :
        t \in (0 - (MaxAge + 1))..MaxAge, l \in { Undefined, "MIT", "GPL" }, sc \in RuleScripts }

\* package-policy.yml with the three thresholds set.
RulePolicies ==
    { [ exists |-> TRUE,
        data   |-> [ minPackageAge |-> m, licenses |-> ls, minWeeklyDownloads |-> w ] ] :
        m \in (0 - 1)..MaxAge, ls \in { << >>, << "MIT" >> }, w \in { 0 - 5, 0, 50 } }

\* <cacheDir>/package-downloads.json: absent, or holding a count of a.  The
\* program stores no -1; a file holding it was written by something else.
RuleDownloadCaches ==
    { NoDownloadCacheFile }
    \cup { savePackageDownloadCache([ n \in {"a"} |-> d ]) : d \in { 0 - 1, 0, 49, 50, 51 } }

\* package-policy.lock: absent, or the record accepted when a@1.0.0 had the
\* script postinstall: x.
RuleApprovalFiles ==
    { NoApprovalFile,
      WrittenApprovalFile(<< [ package |-> "a@1.0.0", type |-> "script",
                               cacheKey |-> "postinstall: x" ] >>) }

\* A directory without package-lock.json: yarn.lock, pnpm-lock.yaml or no
\* lockfile; packages is what a reader of the file would find in it.
OtherLockfiles ==
    { [ kind |-> k, packages |-> << RootEntry, Entry("node_modules/a", "1.0.0") >> ] :
        k \in { "yarn", "pnpm" } }
    \cup { [ kind |-> "none", packages |-> << >> ] }

\* <cacheDir>/a.json written under another cache version: it holds both
\* versions of a, with manifests that are not those of the registry.
OldFormatCacheFile ==
    [ exists   |-> TRUE,
      _version |-> 2,
      time     |-> RegistryData.a.time,
      versions |-> [ v \in DOMAIN RegistryData.a.versions |->
                       [ license |-> "OLD",
                         scripts |-> << [script |-> "install", value |-> "old"] >> ] ] ]

\* The policy that makes every known package unpopular.
UnpopularPolicy == [ exists |-> TRUE, data |-> [ minWeeklyDownloads |-> 2000 ] ]

InitRules ==
    /\ \/ /\ lockfile = CHOOSE l \in Lockfiles : Len(l.packages) = 2
          /\ policyFile \in RulePolicies
          /\ registryCache \in { [ n \in DOMAIN RegistryData |->
                                       IF n = "a" THEN r ELSE NoCacheFile ] : r \in RuleRecords }
          /\ downloadCacheFile \in RuleDownloadCaches
          /\ approvalFile \in RuleApprovalFiles
       \/ /\ lockfile = CHOOSE l \in Lockfiles : Len(l.packages) = 4
          /\ policyFile \in { NoPolicyFile, UnpopularPolicy }
          /\ registryCache \in { [ n \in DOMAIN RegistryData |-> NoCacheFile ],
                                  [ n \in DOMAIN RegistryData |->
                                      IF n = "a" THEN OldFormatCacheFile ELSE NoCacheFile ] }
          /\ downloadCacheFile = NoDownloadCacheFile
          /\ approvalFile = NoApprovalFile
       \/ /\ lockfile \in OtherLockfiles
          /\ policyFile = NoPolicyFile
          /\ registryCache \in { [ n \in DOMAIN RegistryData |-> NoCacheFile ],
                                  [ n \in DOMAIN RegistryData |->
                                      IF n = "a" THEN StaleCacheFile ELSE NoCacheFile ] }
          /\ downloadCacheFile \in RuleDownloadCaches
          /\ approvalFile \in RuleApprovalFiles
    /\ now = 0
    /\ registryUp = TRUE
    /\ pc = "idle"
    /\ exitCode = -1
    /\ RunInit
    /\ unchangedSinceAccept = FALSE
    /\ tracked = << >>
    /\ trackedKept = FALSE

NextRules ==
    \/ \E c \in BOOLEAN : Main(c, "ok")
    \/ ProcessRepo
    \/ \E k \in 1..Len(deps) : CacheLookup(k)
    \/ \E k \in 1..Len(deps) : RegistryResponse(k, TRUE)
    \/ \E k \in 1..Len(deps) : DownloadsResponse(k)
    \/ \E k \in 1..Len(deps) : DownloadsFailure(k)
    \/ AfterBatch(TRUE)
    \/ \E input \in Inputs : Answer(input)

SpecRules == InitRules /\ [][NextRules]_vars

(***************************************************************************)
(* The extractor on one entry without a name field, at every install path  *)
(***************************************************************************)

\* How many packages the entry is nested in.
MaxDepth == 2

\* Package names: unscoped, scoped, and scoped with a scope whose name ends
\* in node_modules (a scope is any URL-safe string).
PathNames == { "a", "pkg", "@s/a", "@x_node_modules/a" }

\* The paths of the packages an entry is nested in, each followed by "/".
RECURSIVE ParentPaths(_)
ParentPaths(n) ==
    IF n = 0 THEN { "" }
    ELSE LET shorter == ParentPaths(n - 1)
         IN  shorter \cup { p \o NodeModules \o name \o "/" : p \in shorter, name \in PathNames }

\* The install path of `name` under a parent path.
InstallPath(parent, name) == parent \o NodeModules \o name

InitPaths ==
    /\ lockfile \in { [ kind |-> "npm", packages |-> << Entry(InstallPath(p, name), "1.0.0") >> ] :
                         p \in ParentPaths(MaxDepth), name \in PathNames }
    /\ policyFile = NoPolicyFile
    /\ now = 0
    /\ registryUp = TRUE
    /\ approvalFile = NoApprovalFile
    /\ registryCache = [ n \in DOMAIN RegistryData |-> NoCacheFile ]
    /\ downloadCacheFile = NoDownloadCacheFile
    /\ pc = "idle"
    /\ exitCode = -1
    /\ RunInit
    /\ unchangedSinceAccept = FALSE
    /\ tracked = << >>
    /\ trackedKept = FALSE

SpecPaths == InitPaths /\ [][Extract]_vars

(***************************************************************************)
(* One run on a directory with a package whose registry answer is bad      *)
(***************************************************************************)

\* <cacheDir>/<name>.json of a package written when only 2.0.0 was asked
\* for and the registry had only that version.
DefectiveStaleFile ==
    [ exists   |-> TRUE,
      _version |-> 1,
      time     |-> [ v \in {"2.0.0"} |-> -100 ],
      versions |-> [ v \in {"2.0.0"} |-> [ license |-> "MIT", scripts |-> << >> ] ] ]

InitAnswers ==
    /\ lockfile \in { [ kind |-> "npm",
                         packages |-> << RootEntry, Entry("node_modules/a", "1.0.0"),
                                         Entry(NodeModules \o n, "1.0.0") >> ] :
                         n \in DOMAIN DefectiveAnswers }
    /\ policyFile \in BatchPolicies
    /\ now = 0
    /\ registryUp = TRUE
    /\ approvalFile = NoApprovalFile
    /\ registryCache \in { [ n \in DOMAIN RegistryData \cup DOMAIN DefectiveAnswers |->
                               IF n \in DOMAIN DefectiveAnswers THEN f ELSE NoCacheFile ] :
                             f \in { NoCacheFile, DefectiveStaleFile } }
    /\ downloadCacheFile = NoDownloadCacheFile
    /\ pc = "idle"
    /\ exitCode = -1
    /\ RunInit
    /\ unchangedSinceAccept = FALSE
    /\ tracked = << >>
    /\ trackedKept = FALSE

SpecAnswers == InitAnswers /\ [][NextRules]_vars

(***************************************************************************)
(* One run after an earlier lookup of another version                      *)
(***************************************************************************)

\* <cacheDir>/<name>.json as an earlier lookup of <name>@2.0.0 wrote it.
FileOfEarlierLookup(name) == FetchRegistry(TRUE, name, "2.0.0").data

\* package-policy.yml with a minimum age and no download check.
AgePolicies ==
    { [ exists |-> TRUE,
        data   |-> [ minPackageAge |-> m, minWeeklyDownloads |-> 0 ] ] : m \in 1..MaxAge }

InitVersions ==
    /\ \E n \in {"a", "mt"} :
          /\ lockfile \in
                { [ kind |-> "npm", packages |-> << RootEntry, Entry(NodeModules \o n, v) >> ] :
                    v \in {"1.0.0", "2.0.0"} }
                \cup { [ kind |-> "npm",
                         packages |-> << RootEntry, Entry(NodeModules \o n, "2.0.0"),
                                         Entry("node_modules/b/node_modules/" \o n, "1.0.0") >> ] }
          /\ registryCache \in
                { [ m \in DOMAIN RegistryData \cup DOMAIN DefectiveAnswers |->
                      IF m = n THEN f ELSE NoCacheFile ] :
                    f \in { NoCacheFile, FileOfEarlierLookup(n) } }
    /\ policyFile \in { NoPolicyFile } \cup AgePolicies
    /\ now = 0
    /\ registryUp = TRUE
    /\ approvalFile = NoApprovalFile
    /\ downloadCacheFile = NoDownloadCacheFile
    /\ pc = "idle"
    /\ exitCode = -1
    /\ RunInit
    /\ unchangedSinceAccept = FALSE
    /\ tracked = << >>
    /\ trackedKept = FALSE

SpecVersions == InitVersions /\ [][NextRules]_vars

(***************************************************************************)
(* One run on a package with two prerelease versions                       *)
(***************************************************************************)

\* <cacheDir>/a.json holding the prereleases 1.0.0-pre, whose manifest has
\* the script preinstall: x, and 1.0.0-prepre, whose manifest has the
\* script install: x.
PrereleaseCacheFile ==
    [ exists   |-> TRUE,
      _version |-> 1,
      time     |-> [ v \in {"1.0.0-pre", "1.0.0-prepre"} |-> -100 ],
      versions |-> [ v \in {"1.0.0-pre", "1.0.0-prepre"} |->
                       [ license |-> "MIT",
                         scripts |-> IF v = "1.0.0-pre"
                                     THEN << [script |-> "preinstall", value |-> "x"] >>
                                     ELSE << [script |-> "install", value |-> "x"] >> ] ] ]

\* package-policy.lock as accepted when a@1.0.0-pre was installed.
PrereleaseApprovalFile ==
    WrittenApprovalFile(<< [ package |-> "a@1.0.0-pre", type |-> "script",
                             cacheKey |-> "preinstall: x" ] >>)

InitKeys ==
    /\ lockfile \in { [ kind |-> "npm",
                         packages |-> << RootEntry, Entry("node_modules/a", v) >> ] :
                         v \in {"1.0.0-pre", "1.0.0-prepre"} }
    /\ policyFile \in BatchPolicies
    /\ now = 0
    /\ registryUp = TRUE
    /\ approvalFile \in { NoApprovalFile, PrereleaseApprovalFile }
    /\ registryCache \in { [ n \in DOMAIN RegistryData |-> NoCacheFile ],
                            [ n \in DOMAIN RegistryData |->
                                IF n = "a" THEN PrereleaseCacheFile ELSE NoCacheFile ] }
    /\ downloadCacheFile = NoDownloadCacheFile
    /\ pc = "idle"
    /\ exitCode = -1
    /\ RunInit
    /\ unchangedSinceAccept = FALSE
    /\ tracked = << >>
    /\ trackedKept = FALSE

SpecKeys == InitKeys /\ [][NextRules]_vars

(***************************************************************************)
(* Properties                                                              *)
(***************************************************************************)

\* processRepo has classified the warnings of this process.
Classified == detectedUncheckedProblems # -1

\* The collected warnings whose identity is not in the record read at start.
NewIdentityCount ==
    Cardinality({ i \in 1..Len(collected) : Identity(collected[i]) \notin Identities(prior) })

\* C1: a collected warning whose (package, type, cacheKey) is in the record
\* read at the start of the run is not among the warnings presented for
\* approval and is not counted in the number of warnings to approve.
C1_ApprovedIdentityIsSuppressed ==
    Classified =>
        /\ \A i \in 1..Len(collected) :
              Identity(collected[i]) \in Identities(prior)
                  => collected[i] \notin Range(warnings)
        /\ detectedUncheckedProblems = Len(warnings)
        /\ detectedUncheckedProblems <= NewIdentityCount

\* A run that has both an approved warning and warnings to approve.
C1_Witness ==
    /\ Classified
    /\ \E i \in 1..Len(collected) : Identity(collected[i]) \in Identities(prior)
    /\ Len(warnings) > 0

\* C2: the rebuilt record holds exactly the identities of the warnings
\* collected in this run, whatever the record read at the start held.
C2_RebuiltRecordIsCurrentWarnings ==
    Classified => Identities(cacheData) = Identities(collected)

\* A run whose prior record has an identity that no longer occurs, beside
\* one that still does and one that is new.
C2_Witness ==
    /\ Classified
    /\ Identities(prior) \ Identities(collected) # {}
    /\ Identities(prior) \cap Identities(collected) # {}
    /\ Identities(collected) \ Identities(prior) # {}

\* C3: a run that follows an accepted and written run, with the lockfile,
\* the policy and the registry's reachability unchanged since, has zero
\* warnings to approve.
C3_SecondRunHasNothingToApprove ==
    (Classified /\ unchangedSinceAccept) => detectedUncheckedProblems = 0

\* Such a second run, with warnings collected and all of them approved.
C3_Witness ==
    /\ Classified
    /\ unchangedSinceAccept
    /\ Len(collected) > 1
    /\ fileAtStart.exists

\* C4: in CI mode with warnings left to approve the process exits with
\* status 1 at once: no prompt, and package-policy.lock is what it was when
\* the process started.
C4_CiFailsWithoutPromptOrWrite ==
    (Classified /\ ci /\ detectedUncheckedProblems > 0)
        => /\ pc = "exited"
           /\ exitCode = 1
           /\ ~prompted
           /\ typed = Undefined
           /\ approvalFile = fileAtStart

\* A CI run with warnings to approve over an existing record.
C4_Witness ==
    /\ Classified
    /\ ci
    /\ detectedUncheckedProblems > 0
    /\ fileAtStart.exists

\* C5 as claimed: after the prompt the record is written only when the user
\* typed y; any other line, the empty line included, ends the process with a
\* nonzero status and leaves package-policy.lock as it was.
C5_OnlyTypedYPersists ==
    (pc = "exited" /\ typed # Undefined)
        => IF typed = "y"
           THEN exitCode = 0 /\ approvalFile = WrittenApprovalFile(cacheData)
           ELSE exitCode # 0 /\ approvalFile = fileAtStart

\* C5 amended: after the prompt the record is written when the user typed y
\* or an empty line (the prompt's default is y); any other line ends the
\* process with a nonzero status and leaves package-policy.lock as it was.
C5_YOrEmptyPersists ==
    (pc = "exited" /\ typed # Undefined)
        => IF typed \in {"y", ""}
           THEN exitCode = 0 /\ approvalFile = WrittenApprovalFile(cacheData)
           ELSE exitCode = 1 /\ approvalFile = fileAtStart

\* The user pressed return at the prompt and the record was written.
C5_Witness ==
    /\ pc = "exited"
    /\ typed = ""
    /\ approvalFile = WrittenApprovalFile(cacheData)
    /\ approvalFile # fileAtStart

\* C6: with no warning left to approve processRepo returns: exit status 0,
\* no prompt, and package-policy.lock is what it was when the process
\* started, also when the rebuilt record differs from it.
C6_NothingToApproveNoPromptNoWrite ==
    (Classified /\ detectedUncheckedProblems = 0)
        => /\ pc = "exited"
           /\ exitCode = 0
           /\ ~prompted
           /\ typed = Undefined
           /\ approvalFile = fileAtStart

\* A run with nothing to approve whose rebuilt record differs from the file.
C6_Witness ==
    /\ Classified
    /\ detectedUncheckedProblems = 0
    /\ fileAtStart.exists
    /\ Identities(cacheData) # Identities(fileAtStart.packages)

\* C7 as claimed: an identity that was accepted and persisted is approved in
\* every later run that collects it, whatever happened in between.
C7_AcceptedIdentityStaysApproved ==
    (Classified /\ tracked # << >> /\ tracked \in Identities(collected))
        => tracked \notin Identities(warnings)

\* C7 amended: an identity that was accepted and persisted is approved in
\* every later run that collects it, as long as no run in between was
\* accepted without collecting it (such a run rewrites the record without it).
C7_AcceptedIdentityStaysApprovedWhileKept ==
    (Classified /\ tracked # << >> /\ trackedKept /\ tracked \in Identities(collected))
        => tracked \notin Identities(warnings)

\* A later run that collects the accepted identity beside new warnings.
C7_Witness ==
    /\ Classified
    /\ tracked # << >>
    /\ trackedKept
    /\ tracked \in Identities(collected)
    /\ Len(warnings) > 0

\* A lockfile entry that is installed: not the root, not a link.
Materialized(spec) == spec.path # "" /\ spec.link # TRUE

StartsWith(str, prefix) ==
    Len(str) >= Len(prefix) /\ SubSeq(str, 1, Len(prefix)) = prefix

\* main ended the process before processRepo was called.
EndedInMain == pc = "exited" /\ (exitCode = 2 \/ failure = "fetch failed")

\* processRepo has read the policy and the lockfile in this process.
InProcessRepo == pc \in {"batch", "prompt"} \/ (pc = "exited" /\ ~EndedInMain)

\* Some installed entry of the lockfile satisfies the non-empty range that
\* `key` of the policy file gives for its name.
PolicyMatches(key) ==
    /\ policyFile.exists
    /\ key \in DOMAIN policyFile.data
    /\ \E i \in 1..Len(lockfile.packages) :
          LET spec == lockfile.packages[i]
              map  == policyFile.data[key]
          IN  /\ Materialized(spec)
              /\ NameOf(spec) \in DOMAIN map
              /\ map[NameOf(spec)] # ""
              /\ Satisfies(spec.version, map[NameOf(spec)])

\* C8 as claimed: a dependency that matches blacklist[name] ends the run
\* with a fatal error before the process has made any network call.
C8_BlacklistAbortsBeforeAnyNetworkCall ==
    (InProcessRepo /\ PolicyMatches("blacklist"))
        => /\ pc = "exited"
           /\ exitCode # 0
           /\ netCalls = NoCalls

\* C8 amended: an installed dependency whose version satisfies the
\* non-empty range blacklist[name] ends processRepo with the fatal error
\* "Blacklisted version" before processRepo requests the registry or the
\* downloads API, also when ignore[name] matches; the only request the
\* process has made is main's fetch of the Node.js advisories.
C8_BlacklistAbortsBeforePackageRequests ==
    (InProcessRepo /\ PolicyMatches("blacklist"))
        => /\ pc = "exited"
           /\ exitCode = 1
           /\ StartsWith(failure, "Blacklisted version ")
           /\ DOMAIN netCalls = { AdvisoriesUrl }
           /\ stage = << >>

\* The abort on a dependency that blacklist and ignore both match.
C8_Witness ==
    /\ pc = "exited"
    /\ StartsWith(failure, "Blacklisted version ")
    /\ PolicyMatches("blacklist")
    /\ PolicyMatches("ignore")

\* C9: a package listed under `block` in package-policy.yml whose range the
\* installed version satisfies makes the run fail before any dependency is
\* evaluated.
C9_BlockKeyDisallows ==
    (InProcessRepo /\ PolicyMatches("block"))
        => /\ pc = "exited"
           /\ exitCode # 0
           /\ stage = << >>

\* The first installed entry of the lockfile with this name@version.
FirstInstalled(key) ==
    LET hits == { i \in 1..Len(lockfile.packages) :
                    /\ Materialized(lockfile.packages[i])
                    /\ NameWithVersion(lockfile.packages[i]) = key }
    IN  CHOOSE i \in hits : \A j \in hits : i <= j

\* C10: the list returned holds at most one entry per name@version, the
\* entry of the first installed lockfile entry with that name@version, and
\* duplicates raise no error.
C10_FirstOccurrenceWins ==
    pc = "extracted" =>
        /\ \A i, j \in 1..Len(deps) : i # j => DepKey(deps[i]) # DepKey(deps[j])
        /\ \A i \in 1..Len(deps) :
              deps[i].path = lockfile.packages[FirstInstalled(DepKey(deps[i]))].path
        /\ (failure # "" => StartsWith(failure, "Blacklisted version "))

\* Two installed entries with one name@version and different paths, and the
\* list returned holds that name@version.
C10_Witness ==
    /\ pc = "extracted"
    /\ failure = ""
    /\ \E i, j \in 1..Len(lockfile.packages) :
          /\ i < j
          /\ Materialized(lockfile.packages[i])
          /\ Materialized(lockfile.packages[j])
          /\ NameWithVersion(lockfile.packages[i]) = NameWithVersion(lockfile.packages[j])
          /\ lockfile.packages[i].path # lockfile.packages[j].path
          /\ \E k \in 1..Len(deps) : DepKey(deps[k]) = NameWithVersion(lockfile.packages[i])


(***************************************************************************)
(* Ignored dependencies                                                    *)
(***************************************************************************)

\* The installed entries of the lockfile whose version satisfies the range
\* that ignore of the policy file sets for their name, and that the
\* blacklist of the policy file does not match.
IgnoredSpecs ==
    { spec \in Range(lockfile.packages) :
        /\ Materialized(spec)
        /\ policyFile.exists
        /\ "ignore" \in DOMAIN policyFile.data
        /\ NameOf(spec) \in DOMAIN policyFile.data.ignore
        /\ policyFile.data.ignore[NameOf(spec)] # ""
        /\ Satisfies(spec.version, policyFile.data.ignore[NameOf(spec)])
        /\ ~PolicyMatches("blacklist") }

\* The number of registry requests made for a package name.
RegistryRequests(name) ==
    IF RegistryUrl(name) \in DOMAIN netCalls THEN netCalls[RegistryUrl(name)] ELSE 0

\* The extracted dependencies of a name.
DepsNamed(name) == { k \in 1..Len(deps) : deps[k].name = name }

\* C11: an installed dependency whose version satisfies ignore[name], and
\* that is not blacklisted, does not fail the run, is not in the extracted
\* list, has no warning collected under its name@version, and causes no
\* registry request: the registry is requested for its name at most once
\* for each other version of that name that was extracted.
C11_IgnoredDependencyIsDropped ==
    InProcessRepo =>
        \A spec \in IgnoredSpecs :
            /\ ~StartsWith(failure, "Blacklisted version ")
            /\ \A k \in 1..Len(deps) : DepKey(deps[k]) # NameWithVersion(spec)
            /\ \A i \in 1..Len(collected) : collected[i].package # NameWithVersion(spec)
            /\ RegistryRequests(NameOf(spec)) <= Cardinality(DepsNamed(NameOf(spec)))

\* A classified run with an ignored version of a name whose other version
\* was extracted and evaluated with one registry request.
C11_Witness ==
    /\ Classified
    /\ collected # << >>
    /\ \E spec \in IgnoredSpecs :
          /\ DepsNamed(NameOf(spec)) # {}
          /\ RegistryRequests(NameOf(spec)) = 1


(***************************************************************************)
(* cacheRegistry                                                           *)
(***************************************************************************)

\* The evaluation of dependency k takes a step out of `from` in processRepo.
Leaves(k, from) ==
    /\ pc = "batch"
    /\ k \in DOMAIN stage
    /\ stage[k] = from
    /\ k \in DOMAIN stage'
    /\ stage'[k] # from

\* The stored record of dependency k: it exists, has cache version 1 and
\* holds, or does not hold, the version of the dependency.
StoredRecordHas(k) ==
    /\ registryCache[deps[k].name].exists
    /\ registryCache[deps[k].name]._version = 1
    /\ deps[k].version \in DOMAIN registryCache[deps[k].name].versions

StoredRecordLacks(k) ==
    /\ registryCache[deps[k].name].exists
    /\ registryCache[deps[k].name]._version = 1
    /\ deps[k].version \notin DOMAIN registryCache[deps[k].name].versions

\* The problems of dependency k as the three rules give them for a record.
ProblemsFrom(k, json) ==
    AgeProblems(config, json, deps[k].name, deps[k].version, now)
    \o ScriptProblems(PackageNameVersion(deps[k].name, deps[k].version),
                      json.versions[deps[k].version].scripts)
    \o LicenseProblems(config, json, deps[k].name, deps[k].version)

\* The step pushes exactly these problems first.
Pushes(problems) ==
    /\ Len(collected') >= Len(collected) + Len(problems)
    /\ SubSeq(collected', 1, Len(collected)) = collected
    /\ SubSeq(collected', Len(collected) + 1, Len(collected) + Len(problems)) = problems

\* C12: when the cache file of the package exists, has cache version 1 and
\* holds the requested version, the lookup makes no registry request, leaves
\* the file as it is, and checkPackage goes on with the stored record.
C12_CacheHitReturnsRecordWithoutNetwork ==
    [][ \A k \in DOMAIN stage :
          (Leaves(k, "cache") /\ StoredRecordHas(k))
            => /\ stage'[k] \in {"downloads", "done"}
               /\ RegistryUrl(deps[k].name) \in DOMAIN netCalls'
                    <=> RegistryUrl(deps[k].name) \in DOMAIN netCalls
               /\ RegistryUrl(deps[k].name) \in DOMAIN netCalls
                    => netCalls'[RegistryUrl(deps[k].name)] = netCalls[RegistryUrl(deps[k].name)]
               /\ registryCache' = registryCache
               /\ Pushes(ProblemsFrom(k, registryCache[deps[k].name])) ]_vars

\* A dependency evaluated in this process, with problems, for whose name the
\* process has made no registry request: its lookup was a cache hit.
C12_Witness ==
    /\ pc = "batch"
    /\ \E k \in DOMAIN stage :
          /\ stage[k] \in {"downloads", "done"}
          /\ RegistryRequests(deps[k].name) = 0
          /\ \E i \in 1..Len(collected) : collected[i].package = DepKey(deps[k])

\* C13: a lookup of a version that the stored record of the package lacks
\* makes exactly one registry request; when the registry answers with the
\* version, the record it returns holds the version (checkPackage evaluates
\* the version from it) and so does the file when it was written.
C13_MissingVersionRefetchesOnce ==
    [][ \A k \in DOMAIN stage :
          /\ (Leaves(k, "cache") /\ StoredRecordLacks(k))
               => /\ stage'[k] = "fetch"
                  /\ netCalls' = [ u \in DOMAIN netCalls \cup { RegistryUrl(deps[k].name) } |->
                                     IF u = RegistryUrl(deps[k].name)
                                     THEN RegistryRequests(deps[k].name) + 1
                                     ELSE netCalls[u] ]
          /\ Leaves(k, "fetch")
               => /\ RegistryUrl(deps[k].name) \in DOMAIN netCalls
                  /\ netCalls'[RegistryUrl(deps[k].name)] = netCalls[RegistryUrl(deps[k].name)]
                  /\ registryCache'[deps[k].name] # registryCache[deps[k].name]
                       => /\ registryCache'[deps[k].name].exists
                          /\ registryCache'[deps[k].name]._version = 1
                          /\ deps[k].version \in DOMAIN registryCache'[deps[k].name].versions
                  /\ (registryUp /\ deps[k].version \in DOMAIN RegistryData[deps[k].name].versions)
                       => Pushes(ProblemsFrom(k, RequiredData(RegistryData[deps[k].name]))) ]_vars

\* The stored record of a is stale: it lacks the version of dependency k,
\* whose lookup has made the one registry request of this process for a.
C13_Witness ==
    /\ pc = "batch"
    /\ \E k \in DOMAIN stage :
          /\ stage[k] = "fetch"
          /\ StoredRecordLacks(k)
          /\ RegistryRequests(deps[k].name) = 1


(***************************************************************************)
(* The popularity lookup                                                   *)
(***************************************************************************)

\* The number of requests made to the downloads API for a package name.
DownloadsRequests(name) ==
    IF DownloadsUrl(name) \in DOMAIN netCalls THEN netCalls[DownloadsUrl(name)] ELSE 0

\* C14: a failure of the popularity lookup does not raise: the process does
\* not end with the Error of checkPackageDownloads, and it never ends while
\* the evaluation of a dependency still waits for the lookup.
C14_PopularityFailureYieldsSentinel ==
    pc = "exited" =>
        /\ failure # DownloadsError
        /\ \A k \in DOMAIN stage : stage[k] # "downloads"

\* C15: in one run the downloads API is requested at most once for each
\* package name.
C15_PopularityRequestedOncePerName ==
    \A k \in 1..Len(deps) : DownloadsRequests(deps[k].name) <= 1


(***************************************************************************)
(* Failures of the files on disk                                           *)
(***************************************************************************)

\* C17: no failure to read or to write a cache file ends the process.
C17_CacheFailureIsNeverFatal ==
    pc = "exited" => failure \notin { JsonSyntaxError, WriteError }

\* C18: when the registry has answered with the version and the write of
\* the cache file fails (the file is not the fresh record afterwards), the
\* process goes on: the file is left as it was, the evaluation of the
\* dependency proceeds and pushes the problems computed from the fresh
\* record.
C18_CacheWriteFailureDoesNotAbort ==
    [][ \A k \in DOMAIN stage :
          ( /\ Leaves(k, "fetch")
            /\ registryUp
            /\ deps[k].name \in DOMAIN RegistryData
            /\ deps[k].version \in DOMAIN RegistryData[deps[k].name].versions
            /\ registryCache'[deps[k].name] # RequiredData(RegistryData[deps[k].name]) )
            => /\ pc' = "batch"
               /\ exitCode' = -1
               /\ registryCache' = registryCache
               /\ stage'[k] \in {"downloads", "done"}
               /\ Pushes(ProblemsFrom(k, RequiredData(RegistryData[deps[k].name]))) ]_vars

\* The only dependency of its name was evaluated from the answer of the
\* registry, with problems, and the cache file is not the fresh record: its
\* write failed.
C18_Witness ==
    /\ pc = "batch"
    /\ registryUp
    /\ \E k \in DOMAIN stage :
          /\ stage[k] \in {"downloads", "done"}
          /\ DepsNamed(deps[k].name) = {k}
          /\ RegistryRequests(deps[k].name) = 1
          /\ registryCache[deps[k].name] # RequiredData(RegistryData[deps[k].name])
          /\ \E i \in 1..Len(collected) : collected[i].package = DepKey(deps[k])

\* C19: when package-policy.lock is absent, cannot be parsed, has no
\* packages list or has a version that is missing or not 1, the run does
\* not fail on it and the record read is empty.
C19_UnusableRecordIsTreatedAsEmpty ==
    ( /\ InProcessRepo
      /\ \/ ~fileAtStart.exists
         \/ ~fileAtStart.parses
         \/ ~fileAtStart.hasPackages
         \/ ~fileAtStart.hasVersion
         \/ fileAtStart.version # 1 )
        => /\ failure # YamlParseError
           /\ prior = << >>


(***************************************************************************)
(* The batches                                                             *)
(***************************************************************************)

\* The registry answers the lookup of dependency k with its version.
RegistryKnows(k) ==
    /\ registryUp
    /\ deps[k].name \in DOMAIN RegistryData
    /\ deps[k].version \in DOMAIN RegistryData[deps[k].name].versions

\* The evaluations finished although their registry lookup failed.
FailedLookups ==
    { k \in DOMAIN stage :
        /\ stage[k] \in {"downloads", "done"}
        /\ RegistryRequests(deps[k].name) >= 1
        /\ ~RegistryKnows(k) }

\* The process ended inside the batch loop.
EndedInBatchLoop == pc = "exited" /\ stage # << >> /\ ~Classified

\* C16: a registry lookup that fails is caught inside checkPackage.  The
\* step in which it fails leaves the process in the batch loop, pushes no
\* problem and touches no other evaluation; a dependency whose lookup failed
\* has no warning under its name@version; the process never ends inside the
\* batch loop but by the Error of a popularity lookup; and a classified run
\* has evaluated every dependency of every batch.
C16_RegistryErrorIsCaughtPerDependency ==
    /\ [](/\ \A k \in FailedLookups :
               \A i \in 1..Len(collected) : collected[i].package # DepKey(deps[k])
          /\ EndedInBatchLoop => failure = DownloadsError
          /\ Classified => \A k \in DOMAIN stage : stage[k] = "done")
    /\ [][ \A k \in DOMAIN stage :
             (Leaves(k, "fetch") /\ ~RegistryKnows(k))
               => /\ pc' = "batch"
                  /\ exitCode' = -1
                  /\ collected' = collected
                  /\ stage'[k] \in {"downloads", "done"}
                  /\ \A j \in DOMAIN stage : j # k => stage'[j] = stage[j] ]_vars

\* A classified run of two batches: lookups of the first batch failed, a
\* sibling of theirs in the first batch and the dependency of the second
\* batch were evaluated with warnings.
C16_Witness ==
    /\ Classified
    /\ chunk > 0
    /\ \E k \in FailedLookups : k <= batchSize
    /\ \E j \in 1..Len(deps) :
          /\ j <= batchSize
          /\ \E i \in 1..Len(collected) : collected[i].package = DepKey(deps[j])
    /\ \E j \in 1..Len(deps) :
          /\ j > batchSize
          /\ \E i \in 1..Len(collected) : collected[i].package = DepKey(deps[j])

\* The batch of dependency k, counted from 0.
BatchOf(k) == (k - 1) \div 32

\* C20: the sorted dependencies are evaluated in consecutive batches of 32,
\* one batch after the other: at most 32 evaluations are in flight, those in
\* flight belong to one batch, and an evaluation has started only if every
\* evaluation of the batches before its own has completed.
C20_BatchesOf32RunSequentially ==
    /\ Cardinality(InFlight) <= 32
    /\ \A k \in InFlight : \A j \in InFlight : BatchOf(j) = BatchOf(k)
    /\ \A k \in DOMAIN stage : \A j \in DOMAIN stage :
          (stage[k] # "pending" /\ BatchOf(j) < BatchOf(k)) => stage[j] = "done"
    /\ \A k \in DOMAIN stage :
          stage[k] # "pending" => BatchOf(k) * 32 <= chunk

\* The second batch is in flight after the 32 evaluations of the first.
C20_Witness ==
    /\ pc = "batch"
    /\ \E k \in InFlight : BatchOf(k) = 1
    /\ Cardinality({ j \in DOMAIN stage : stage[j] = "done" }) = 32


(***************************************************************************)
(* The order of the extracted dependencies                                 *)
(***************************************************************************)

\* C24: the list returned is sorted by name ascending, and dependencies of
\* one name are in the order in which the lockfile first lists them, so the
\* order is a function of the lockfile.
C24_DepsSortedByNameStable ==
    (pc = "extracted" /\ failure = "") =>
        \A i, j \in 1..Len(deps) :
            i < j =>
                /\ ~StrLess(deps[j].name, deps[i].name)
                /\ deps[i].name = deps[j].name
                     => FirstInstalled(DepKey(deps[i])) < FirstInstalled(DepKey(deps[j]))

\* A lockfile that lists b before a and a at two versions, all extracted.
C24_Witness ==
    /\ pc = "extracted"
    /\ failure = ""
    /\ Len(deps) = 3
    /\ deps[1].name = deps[2].name
    /\ deps[1].version # deps[2].version
    /\ FirstInstalled(DepKey(deps[3])) < FirstInstalled(DepKey(deps[1]))


(***************************************************************************)
(* The rules of checkPackage and the download check                        *)
(***************************************************************************)

\* checkPackage has returned for dependency k with the record of its name.
Evaluated(k) ==
    /\ k \in DOMAIN stage
    /\ stage[k] \in {"downloads", "done"}
    /\ registryCache[deps[k].name].exists
    /\ deps[k].version \in DOMAIN registryCache[deps[k].name].versions

\* The manifest fields and the publish day of dependency k in that record.
ManifestOf(k) == registryCache[deps[k].name].versions[deps[k].version]
PublishedOf(k) == registryCache[deps[k].name].time[deps[k].version]

\* The collected warnings of a package and type, as positions in `warnings`.
CollectedOf(package, type) ==
    { j \in 1..Len(collected) : collected[j].package = package /\ collected[j].type = type }

\* Those with a given cacheKey.
CollectedWith(package, type, cacheKey) ==
    { j \in CollectedOf(package, type) : collected[j].cacheKey = cacheKey }

\* C26: when the run has classified its warnings, a minWeeklyDownloads
\* warning was emitted for a package name if and only if the download check
\* is enabled (the threshold is greater than 0), the count obtained for the
\* name (from the popularity cache, or from the API when the cache has none)
\* is not -1 and the count is strictly less than the threshold; a count
\* equal to the threshold emits none.
C26_DownloadWarningIffBelowThreshold ==
    Classified =>
        \A k \in 1..Len(deps) :
            LET name == deps[k].name
            IN  (CollectedOf(name, "minWeeklyDownloads") # {})
                <=> /\ config.minWeeklyDownloads > 0
                    /\ name \in DOMAIN packageDownloadCache
                    /\ packageDownloadCache[name] # -1
                    /\ packageDownloadCache[name] < config.minWeeklyDownloads

\* A run in which the count of a equals the threshold, and no warning.
C26_Witness ==
    /\ Classified
    /\ config.minWeeklyDownloads = 50
    /\ "a" \in DOMAIN packageDownloadCache
    /\ packageDownloadCache["a"] = config.minWeeklyDownloads
    /\ CollectedOf("a", "minWeeklyDownloads") = {}


\* The script names that npm install runs.
InstallScripts == { "prepare", "preinstall", "install", "postinstall" }

\* C27: for every dependency evaluated, each of the scripts prepare,
\* preinstall, install and postinstall that the manifest of its version
\* defines gives exactly one script warning, with cacheKey
\* "<scriptName>: <scriptBody>"; no other script name gives a warning and
\* there is no script warning besides these; and once the warnings are
\* classified, the warning of a script of which the prior record holds
\* another body for the same package and script name, and not this body,
\* is among the warnings left to approve.
C27_OneWarningPerInstallScript ==
    \A k \in 1..Len(deps) :
        Evaluated(k) =>
            LET pnv     == deps[k].name \o "@" \o deps[k].version
                scripts == ManifestOf(k).scripts
                keys    == { scripts[i].script \o ": " \o scripts[i].value :
                               i \in { n \in 1..Len(scripts) : scripts[n].script \in InstallScripts } }
            IN  /\ \A key \in keys : Cardinality(CollectedWith(pnv, "script", key)) = 1
                /\ \A j \in CollectedOf(pnv, "script") : collected[j].cacheKey \in keys
                /\ Classified =>
                     \A n \in 1..Len(scripts) :
                        LET name == scripts[n].script
                            key  == name \o ": " \o scripts[n].value
                        IN  ( /\ name \in InstallScripts
                              /\ << pnv, "script", key >> \notin Identities(prior)
                              /\ \E i \in 1..Len(prior) :
                                    /\ prior[i].package = pnv
                                    /\ prior[i].type = "script"
                                    /\ StartsWith(prior[i].cacheKey, name \o ": ") )
                            => << pnv, "script", key >> \in Identities(warnings)

\* postinstall: x of a@1.0.0 was approved, the manifest now has
\* postinstall: y, and the run stops at the prompt with that warning.
C27_Witness ==
    /\ pc = "prompt"
    /\ Evaluated(1)
    /\ << "a@1.0.0", "script", "postinstall: x" >> \in Identities(prior)
    /\ ManifestOf(1).scripts = << [script |-> "postinstall", value |-> "y"] >>
    /\ Identities(warnings) = { << "a@1.0.0", "script", "postinstall: y" >> }


\* C28: for every dependency evaluated: with an empty whitelist there is no
\* license warning; with a non-empty whitelist there is exactly one, with
\* cacheKey "no license", when the manifest has no license field, exactly
\* one, with the license as cacheKey, when the license is not in the
\* whitelist, and none when it is.
C28_LicenseRule ==
    \A k \in 1..Len(deps) :
        Evaluated(k) =>
            LET pnv     == deps[k].name \o "@" \o deps[k].version
                license == ManifestOf(k).license
                found   == CollectedOf(pnv, "license")
            IN  IF config.licenses = << >> THEN found = {}
                ELSE IF license = Undefined
                     THEN /\ Cardinality(found) = 1
                          /\ \A j \in found : collected[j].cacheKey = "no license"
                ELSE IF \E i \in 1..Len(config.licenses) : config.licenses[i] = license
                     THEN found = {}
                ELSE /\ Cardinality(found) = 1
                     /\ \A j \in found : collected[j].cacheKey = license

\* With the whitelist [MIT]: a GPL dependency evaluated.
C28_Witness ==
    /\ Evaluated(1)
    /\ config.licenses = << "MIT" >>
    /\ ManifestOf(1).license = "GPL"
    /\ CollectedWith("a@1.0.0", "license", "GPL") # {}


\* C29: for every dependency evaluated, a minPackageAge warning with the
\* version as cacheKey is emitted if and only if config.minPackageAge > 0
\* and now minus the publish day of the version is less than
\* config.minPackageAge; a version exactly as old as the threshold, or
\* older, gives none.
C29_AgeWarningIffPositiveThresholdAndYounger ==
    \A k \in 1..Len(deps) :
        Evaluated(k) =>
            LET pnv == deps[k].name \o "@" \o deps[k].version
            IN  /\ (CollectedOf(pnv, "minPackageAge") # {})
                   <=> /\ config.minPackageAge > 0
                       /\ now - PublishedOf(k) < config.minPackageAge
                /\ \A j \in CollectedOf(pnv, "minPackageAge") :
                       collected[j].cacheKey = deps[k].version


(***************************************************************************)
(* A directory without package-lock.json                                   *)
(***************************************************************************)

\* The Error thrown for each kind of directory.
UnsupportedError ==
    CASE lockfile.kind = "yarn" -> "yaml.lock not supported yet"
      [] lockfile.kind = "pnpm" -> "pnpm-lock.yaml not supported yet"
      [] OTHER                  -> "No lockfile found"

\* C30: in a directory with only yarn.lock, only pnpm-lock.yaml or no
\* lockfile, once processRepo has called readInstalledPackagesFromLockfile
\* the process has ended with exit code 1 and the Error of that kind of
\* directory; no dependency was returned or evaluated, no warning collected,
\* no registry or popularity request made, and no step of the process ever
\* changes package-policy.lock, a registry cache file or the popularity
\* cache file.
C30_UnsupportedLockfileFailsFirst ==
    /\ [](lockfile.kind # "npm" =>
            /\ deps = << >>
            /\ stage = << >>
            /\ collected = << >>
            /\ DOMAIN netCalls \subseteq { AdvisoriesUrl }
            /\ pc \in { "idle", "processRepo", "exited" }
            /\ pc = "exited" => (exitCode = 1 /\ failure = UnsupportedError))
    /\ [][lockfile.kind # "npm" =>
            UNCHANGED << approvalFile, registryCache, downloadCacheFile >>]_vars

\* A directory with pnpm-lock.yaml, an approval record and a popularity
\* cache: the process has ended with the Error.
C30_Witness ==
    /\ lockfile.kind = "pnpm"
    /\ pc = "exited"
    /\ failure = "pnpm-lock.yaml not supported yet"
    /\ approvalFile.exists
    /\ downloadCacheFile.exists


(***************************************************************************)
(* The rebuilt record under the interleavings of a chunk                   *)
(***************************************************************************)

\* The warnings of the dependencies 1..k when they are evaluated one after
\* the other, in the order of deps: the problems of checkPackage, then the
\* download warning of the name if the name was not checked before.
RECURSIVE InOrderProblems(_)
InOrderProblems(k) ==
    IF k = 0 THEN << >>
    ELSE LET name == deps[k].name
         IN  InOrderProblems(k - 1)
             \o ProblemsFrom(k, registryCache[name])
             \o (IF /\ EnableDownloadCheck(config)
                    /\ \A j \in 1..(k - 1) : deps[j].name # name
                    /\ name \in DOMAIN packageDownloadCache
                 THEN DownloadProblems(config, name, packageDownloadCache[name])
                 ELSE << >>)

\* C21: whatever the order in which the evaluations of a chunk complete,
\* the rebuilt record is the one sequence that the inputs determine: the
\* entries of the warnings of the dependencies, sorted by package name.
C21_RebuiltRecordIsDetermined ==
    Classified => cacheData = RebuildCacheData(InOrderProblems(Len(deps)))

\* C22: the rebuilt record never holds two entries with the same
\* (package, type, cacheKey).
C22_RebuiltRecordHasNoDuplicate ==
    Classified =>
        \A i, j \in 1..Len(cacheData) :
            i < j => Identity(cacheData[i]) # Identity(cacheData[j])


(***************************************************************************)
(* Registry requests per package name                                      *)
(***************************************************************************)

\* C23, as the claim states it: the registry endpoint of a package name is
\* requested at most once in a run.
C23_RegistryRequestedOncePerName ==
    \A k \in 1..Len(deps) : RegistryRequests(deps[k].name) <= 1

\* C23, amended: the registry endpoint of a package name is requested at
\* most once per extracted version of the name, and never for a name that
\* was not extracted.
C23_RegistryRequestedOncePerVersion ==
    \A name \in DOMAIN RegistryData :
        RegistryRequests(name) <= Cardinality(DepsNamed(name))

\* a is installed at two versions, nothing is cached, and both evaluations
\* have requested the registry endpoint of a.
C23_Witness ==
    /\ Cardinality(DepsNamed("a")) = 2
    /\ RegistryRequests("a") = 2
    /\ Classified


(***************************************************************************)
(* The cacheKey of the low-popularity warning                              *)
(***************************************************************************)

\* C25: every minWeeklyDownloads warning carries the cacheKey
\* "minWeeklyDownloads=<threshold>", the configured threshold after the
\* prefix, whatever the count measured.
C25_DownloadCacheKeyIsPrefixedThreshold ==
    \A j \in 1..Len(collected) :
        collected[j].type = "minWeeklyDownloads"
            => collected[j].cacheKey
                   = "minWeeklyDownloads=" \o ToString(config.minWeeklyDownloads)


(***************************************************************************)
(* The name inferred from an install path                                  *)
(***************************************************************************)

\* C31: for an entry installed at <parent>node_modules/<name>, <name>
\* unscoped or scoped, at the top level or nested, the extractor names the
\* dependency by the part of the path after the last occurrence of
\* node_modules/, and that part is exactly <name> (for every name that does
\* not itself contain node_modules/).
C31_NameIsThePartAfterNodeModules ==
    (pc = "extracted" /\ Len(deps) = 1) =>
        LET path == deps[1].path
        IN  /\ deps[1].name = Substring(path, LastIndexOf(path, NodeModules) + Len(NodeModules),
                                        Len(path))
            /\ \A p \in ParentPaths(MaxDepth), name \in PathNames :
                   (path = InstallPath(p, name) /\ LastIndexOf(name, NodeModules) = -1)
                       => deps[1].name = name

\* A scoped package at the top level, where node_modules/ is at index 0.
C31_Witness ==
    /\ pc = "extracted"
    /\ Len(deps) = 1
    /\ deps[1].path = "node_modules/@s/a"
    /\ deps[1].name = "@s/a"


(***************************************************************************)
(* cacheRegistry: a record of another cache version; a bad answer          *)
(***************************************************************************)

\* The stored record of dependency k has another cache version than 1.
StoredRecordOtherVersion(k) ==
    /\ registryCache[deps[k].name].exists
    /\ registryCache[deps[k].name]._version # 1

\* C32: a lookup that finds a stored record of another cache version does
\* not go on with it, even if it holds the requested version: it requests
\* the registry and collects nothing yet; and when the registry has
\* answered, the file is the full record of the answer with cache version
\* 1, and the problems pushed are those of that record.
C32_OtherCacheVersionIsRebuilt ==
    [][ \A k \in DOMAIN stage :
          StoredRecordOtherVersion(k) =>
              /\ Leaves(k, "cache")
                   => /\ stage'[k] = "fetch"
                      /\ RegistryRequests(deps[k].name)' = RegistryRequests(deps[k].name) + 1
                      /\ collected' = collected
                      /\ registryCache' = registryCache
              /\ Leaves(k, "fetch")
                   => /\ registryCache'[deps[k].name].exists
                      /\ registryCache'[deps[k].name]._version = 1
                      /\ registryCache'[deps[k].name].time = RegistryData[deps[k].name].time
                      /\ \A v \in DOMAIN RegistryData[deps[k].name].versions :
                            /\ v \in DOMAIN registryCache'[deps[k].name].versions
                            /\ registryCache'[deps[k].name].versions[v].scripts
                                  = RegistryData[deps[k].name].versions[v].scripts
                      /\ Pushes(ProblemsFrom(k, registryCache'[deps[k].name])) ]_vars

\* The stored record of a had another cache version and both versions of a;
\* the run has classified its warnings with a record of version 1 on disk
\* and no warning from the old manifests.
C32_Witness ==
    /\ Classified
    /\ RegistryRequests("a") >= 1
    /\ registryCache["a"]._version = 1
    /\ \A j \in 1..Len(collected) : collected[j].cacheKey # "install: old"
    /\ \E j \in 1..Len(collected) : collected[j].cacheKey = "postinstall: x"


\* The answer of the registry for dependency k has no versions map, lacks
\* the version in it, has no time map, lacks the version in it, or has a
\* timestamp of the version that is not a string.
BadAnswer(k) ==
    /\ deps[k].name \in DOMAIN DefectiveAnswers
    /\ LET json == DefectiveAnswers[deps[k].name]
       IN  \/ ~json.hasVersions
           \/ deps[k].version \notin DOMAIN json.versions
           \/ ~json.hasTime
           \/ deps[k].version \notin DOMAIN json.time
           \/ deps[k].version \notin json.stringTimes

\* C33: when the registry answers the lookup of dependency k with such an
\* answer, no cache file is written or changed, no problem of the dependency
\* is collected (checkPackage got no record), and the error ends the
\* evaluation of the rules for that dependency only: the batch goes on.
C33_BadAnswerRaisesAndLeavesFile ==
    [][ \A k \in DOMAIN stage :
          (Leaves(k, "fetch") /\ BadAnswer(k))
            => /\ registryCache' = registryCache
               /\ \A j \in 1..Len(collected') : collected'[j].package # DepKey(deps[k])
               /\ stage'[k] \in {"downloads", "done"}
               /\ pc' = "batch"
               /\ exitCode' = -1 ]_vars

\* The timestamp of st@1.0.0 is not a string: the registry was asked once,
\* the stale cache file of st is as it was, and st@1.0.0 has no warning.
C33_Witness ==
    /\ \E k \in DOMAIN stage :
          /\ deps[k].name = "st"
          /\ stage[k] \in {"downloads", "done"}
    /\ RegistryRequests("st") = 1
    /\ registryCache["st"] = DefectiveStaleFile
    /\ \A j \in 1..Len(collected) : collected[j].package # "st@1.0.0"


(***************************************************************************)
(* The popularity cache file                                               *)
(***************************************************************************)

\* The step in which processRepo passes the save of the popularity cache:
\* the warnings become classified.
PassesSave == ~Classified /\ Classified'

\* The map of the popularity cache file as it is.
StoredDownloads == IF downloadCacheFile.exists THEN downloadCacheFile.data ELSE EmptyMap

C35_ApprovedOnlyBySameIdentity ==
    Classified =>
        \A j \in 1..Len(collected) :
            Identity(collected[j]) \notin Identities(warnings)
                => Identity(collected[j]) \in Identities(prior)


(***************************************************************************)
(* A successful run and the lookups that failed                            *)
(***************************************************************************)

\* C36: when the run ends as a success with no warning left to approve, every
\* dependency extracted from the lockfile has been evaluated by checkPackage
\* with the registry record of its version.
C36_SuccessMeansEveryDependencyEvaluated ==
    (pc = "exited" /\ exitCode = 0 /\ Classified /\ warnings = << >>)
        => \A k \in 1..Len(deps) : Evaluated(k)


(***************************************************************************)
(* The record cacheRegistry returns                                        *)
(***************************************************************************)

\* C37: the record that cacheRegistry returned for a dependency, from the
\* cache file or from the registry, has a version entry and a string publish
\* timestamp for the version of the dependency.
C37_ReturnedRecordHasTimestamp ==
    \A k \in DOMAIN stage :
        Evaluated(k) => deps[k].version \in DOMAIN registryCache[deps[k].name].time


(***************************************************************************)
(* The counts of the popularity cache loaded at run start                  *)
(***************************************************************************)

\* C38: while the batches are evaluated, a package name for which the
\* popularity cache file (as loaded at run start) holds a count, whatever
\* the count, has had no popularity request, and its count in the run is
\* the one of the file.
C38_CachedCountIsNeverRequested ==
    (pc = "batch" /\ downloadCacheFile.exists)
        => \A n \in DOMAIN downloadCacheFile.data :
              /\ DownloadsRequests(n) = 0
              /\ n \in DOMAIN packageDownloadCache
              /\ packageDownloadCache[n] = downloadCacheFile.data[n]

=============================================================================
